---- MODULE Spec2Model ----
(***************************************************************************)
(* Verification model of the UK-Trains departure board plugin:             *)
(*   text_formatter.delayCalc, image_generator (board builder, content     *)
(*   hash, render dispatcher), text2png_modern.parse_service_data,         *)
(*   device_manager / plugin service processing and plugin.routeUpdate.    *)
(*                                                                         *)
(* Text is modelled as a sequence of one-character strings so that         *)
(* slicing, splitting, padding and substring tests are computed as the     *)
(* Python code computes them.                                              *)
(***************************************************************************)
EXTENDS Integers, Sequences, FiniteSets, TLC

VARIABLES
    scheduled_time,   \* delayCalc: first argument
    estimated_time,   \* delayCalc: second argument
    delayResult,      \* delayCalc: returned (trainProblem, delayMessage), or a raise
    svcRecord,        \* builder: the ServiceItem, its ServiceDetails and the call's options
    stationBoard,     \* builder: text returned by _format_station_board
    parsedBoard,      \* modern renderer: result of parse_service_data on that text
    procInput,        \* service processing: the fetched board and the call's options
    procDM,           \* device_manager._process_train_services: its effects and board body
    procPL,           \* plugin._process_train_services: its effects and board body
    hashInputs,       \* content hash: two (board text, parameters text) file pairs
    hashDigests,      \* content hash: the digest computed for each pair
    plugin_prefs,     \* dispatcher: generateClassicBoard / generateModernBoard
    childOutcome,     \* dispatcher: how the render process of each style ends
    dispatch,         \* dispatcher: what _generate_departure_image did and returned
    singleImage,      \* dispatcher: what one call of _generate_single_image did
    renderProc,       \* render process: the text2png.py run started for one style
    routeCfg,         \* route: the device's configuration (filter, includeCalling)
    upstream,         \* route: the services the upstream returns for the station
    paramsFile,       \* route: the text of the render parameters file
    ukTime,           \* route: minutes elapsed on the wall clock
    dev,              \* route: the states of the route device
    boardFile,        \* route: the text of the departure board file
    storedDigest,     \* route: the content digest kept for the route
    renderCalls,      \* route: how many times the render process was launched
    lastCycle,        \* route: what the latest poll cycle of the route did
    pollRoutes,       \* poll loop: the route devices and what the environment answers each
    pollLoop,         \* poll loop: iteration, position in the device list, what was attempted
    upstreamAnswers,  \* darwin_api: how each successive upstream call ends; tenacity installed
    fetchCalls,       \* darwin_api: what each fetch function did and gave its caller
    boardLines,       \* parser: the lines handed to parse_service_data
    parseResult,      \* parser: the services returned and the skipped lines counted
    splitInput,       \* calling points: the subsequent calling points and word_length
    splitLines,       \* calling points: the '>>> ' entries appended to image_content
    drawLines,        \* text2png: the wrapped lines of the timetable handed to the draw loop
    drawPass          \* text2png: what the draw loop drew, in order

delayVars == <<scheduled_time, estimated_time, delayResult>>
boardVars == <<svcRecord, stationBoard, parsedBoard>>
procVars == <<procInput, procDM, procPL>>
hashVars == <<hashInputs, hashDigests>>
dispVars == <<plugin_prefs, childOutcome, dispatch, singleImage, renderProc>>

routeVars == <<routeCfg, upstream, paramsFile, ukTime, dev, boardFile, storedDigest,
               renderCalls, lastCycle>>

pollVars == <<pollRoutes, pollLoop>>
fetchVars == <<upstreamAnswers, fetchCalls>>
parseVars == <<boardLines, parseResult>>
splitVars == <<splitInput, splitLines>>
drawVars == <<drawLines, drawPass>>

vars == <<delayVars, boardVars, procVars, hashVars, dispVars, routeVars, pollVars, fetchVars, parseVars, splitVars, drawVars>>

(***************************************************************************)
(* Text helpers (Python str operations)                                    *)
(***************************************************************************)

\* Python None, kept apart from every text (no text has this element)
NoneTok == <<"NONE">>

Digits == <<"0","1","2","3","4","5","6","7","8","9">>

LowerAlphabet == <<"a","b","c","d","e","f","g","h","i","j","k","l","m",
                   "n","o","p","q","r","s","t","u","v","w","x","y","z">>

UpperAlphabet == <<"A","B","C","D","E","F","G","H","I","J","K","L","M",
                   "N","O","P","Q","R","S","T","U","V","W","X","Y","Z">>

\* sub in s
Contains(s, sub) ==
    \E i \in 1..(Len(s) - Len(sub) + 1) : SubSeq(s, i, i + Len(sub) - 1) = sub

UpperChar(c) ==
    IF \E i \in 1..26 : LowerAlphabet[i] = c
    THEN UpperAlphabet[CHOOSE i \in 1..26 : LowerAlphabet[i] = c]
    ELSE c

\* s.upper()
Upper(s) == [i \in 1..Len(s) |-> UpperChar(s[i])]

IsSpace(c) == c \in {" ", "\n", "\t"}

\* smallest element of a non-empty set of integers
MinOf(S) == CHOOSE x \in S : \A y \in S : x <= y

\* largest element of a non-empty set of integers
MaxOf(S) == CHOOSE x \in S : \A y \in S : y <= x

\* s.lstrip()
LStrip(s) ==
    LET keep == {i \in 1..Len(s) : ~IsSpace(s[i])}
    IN IF keep = {} THEN <<>> ELSE SubSeq(s, MinOf(keep), Len(s))

\* s.rstrip()
RStrip(s) ==
    LET keep == {i \in 1..Len(s) : ~IsSpace(s[i])}
    IN IF keep = {} THEN <<>> ELSE SubSeq(s, 1, MaxOf(keep))

\* s.strip()
Strip(s) == LStrip(RStrip(s))

\* s[:n] for n >= 0
Take(s, n) == SubSeq(s, 1, IF n < Len(s) THEN n ELSE Len(s))

\* s[n:] for n >= 0
Drop(s, n) == SubSeq(s, n + 1, Len(s))

\* c * n
Repeat(c, n) == [i \in 1..n |-> c]

RECURSIVE Split(_, _)
\* s.split(sep) for a one-character separator
Split(s, sep) ==
    LET at == {i \in 1..Len(s) : s[i] = sep}
    IN IF at = {} THEN <<s>>
       ELSE <<SubSeq(s, 1, MinOf(at) - 1)>> \o Split(SubSeq(s, MinOf(at) + 1, Len(s)), sep)

IsDigit(c) == \E i \in 1..10 : Digits[i] = c

DigitVal(c) == (CHOOSE i \in 1..10 : Digits[i] = c) - 1

\* int(s) accepts surrounding whitespace, one optional sign and decimal digits
IntBody(s) ==
    LET t == Strip(s)
    IN IF t # <<>> /\ Head(t) \in {"+", "-"} THEN Tail(t) ELSE t

IsInt(s) == IntBody(s) # <<>> /\ \A i \in 1..Len(IntBody(s)) : IsDigit(IntBody(s)[i])

RECURSIVE DigitsVal(_)
DigitsVal(s) == IF s = <<>> THEN 0 ELSE DigitsVal(SubSeq(s, 1, Len(s) - 1)) * 10 + DigitVal(s[Len(s)])

\* int(s), for IsInt(s)
AtoI(s) ==
    LET t == Strip(s)
    IN IF Head(t) = "-" THEN 0 - DigitsVal(IntBody(s)) ELSE DigitsVal(IntBody(s))

RECURSIVE ItoA(_)
\* str(n) for n >= 0
ItoA(n) == IF n < 10 THEN <<Digits[n + 1]>> ELSE ItoA(n \div 10) \o <<Digits[(n % 10) + 1]>>

Abs(n) == IF n < 0 THEN 0 - n ELSE n

\* s.startswith(p)
StartsWith(s, p) == Len(s) >= Len(p) /\ SubSeq(s, 1, Len(p)) = p

\* start positions of sub in s
Occurrences(s, sub) ==
    {i \in 1..(Len(s) - Len(sub) + 1) : SubSeq(s, i, i + Len(sub) - 1) = sub}

RECURSIVE ReplaceAll(_, _, _)
\* s.replace(pat, rep) for a non-empty pat
ReplaceAll(s, pat, rep) ==
    LET at == Occurrences(s, pat)
    IN IF at = {} THEN s
       ELSE SubSeq(s, 1, MinOf(at) - 1) \o rep
            \o ReplaceAll(SubSeq(s, MinOf(at) + Len(pat), Len(s)), pat, rep)

\* length of the run of '-' that starts at position i of s
DashRunAt(s, i) ==
    LET stop == {j \in i..Len(s) : s[j] # "-"}
    IN IF stop = {} THEN Len(s) - i + 1 ELSE MinOf(stop) - i

RECURSIVE ReSplitDashes(_)
\* re.split(r'-{3,}', s): the leftmost run of three or more is consumed whole
ReSplitDashes(s) ==
    LET at == Occurrences(s, <<"-", "-", "-">>)
    IN IF at = {} THEN <<s>>
       ELSE <<SubSeq(s, 1, MinOf(at) - 1)>>
            \o ReSplitDashes(SubSeq(s, MinOf(at) + DashRunAt(s, MinOf(at)), Len(s)))

\* [f(x) for x in list if keep(x)] with f = strip and keep = non-empty after strip
RECURSIVE StripNonEmpty(_)
StripNonEmpty(list) ==
    IF list = <<>> THEN <<>>
    ELSE IF Strip(Head(list)) # <<>> THEN <<Strip(Head(list))>> \o StripNonEmpty(Tail(list))
    ELSE StripNonEmpty(Tail(list))

Max(a, b) == IF a > b THEN a ELSE b

(***************************************************************************)
(* Text constants                                                          *)
(***************************************************************************)

T_On == <<"O","n">>
T_CAN == <<"C","A","N">>
T_On_time == <<"O","n"," ","t","i","m","e">>
T_On_Time == <<"O","n"," ","T","i","m","e">>
T_Cancelled == <<"C","a","n","c","e","l","l","e","d">>
T_CANCELLED == <<"C","A","N","C","E","L","L","E","D">>
T_Delayed == <<"D","e","l","a","y","e","d">>
T_min_late == <<" ","m","i","n"," ","l","a","t","e">>
T_mins_late == <<" ","m","i","n","s"," ","l","a","t","e">>
T_min_early == <<" ","m","i","n"," ","e","a","r","l","y">>
T_mins_early == <<" ","m","i","n","s"," ","e","a","r","l","y">>

(***************************************************************************)
(* text_formatter.delayCalc                                                *)
(***************************************************************************)

\* Python truthiness of a token: None and '' are falsy
Truthy(s) == s # NoneTok /\ s # <<>>

\* s[0] in '012'
StartsLikeTime(s) == s[1] \in {"0", "1", "2"}

\* a returned (trainProblem, delayMessage)
Returned(problem, msg) == [raised |-> FALSE, problem |-> problem, msg |-> msg]

\* an exception leaving the function (ValueError of int() or of the unpacking)
Raised == [raised |-> TRUE, problem |-> FALSE, msg |-> <<>>]

\* hs, ms = [int(i) for i in t.split(':')] succeeds
ParsesAsTime(t) ==
    LET parts == Split(t, ":")
    IN /\ \A i \in 1..Len(parts) : IsInt(parts[i])
       /\ Len(parts) = 2

\* hs * 60 + ms
TimeVal(t) ==
    LET parts == Split(t, ":")
    IN AtoI(parts[1]) * 60 + AtoI(parts[2])

\* a plausible slip: an unrecognised status taken for an on-time service
StatusBranch_defaultOnTime(s, e) ==
    IF (Truthy(s) /\ Contains(Upper(s), T_CAN)) \/ (Truthy(e) /\ Contains(Upper(e), T_CAN))
    THEN Returned(TRUE, T_Cancelled)
    ELSE Returned(FALSE, T_On_time)

\* the status branch: neither token is compared as a time
StatusBranch(s, e) ==
    IF (Truthy(s) /\ Contains(s, T_On)) \/ (Truthy(e) /\ Contains(e, T_On))
    THEN Returned(FALSE, T_On_time)
    ELSE IF (Truthy(s) /\ Contains(Upper(s), T_CAN)) \/ (Truthy(e) /\ Contains(Upper(e), T_CAN))
    THEN Returned(TRUE, T_Cancelled)
    ELSE Returned(TRUE, T_Delayed)

\* a plausible slip: the singular test widened to a comparison
DelayBranch_offByOne(delay_minutes) ==
    IF delay_minutes < 0
    THEN Returned(TRUE, ItoA(Abs(delay_minutes)) \o T_mins_early)
    ELSE IF delay_minutes > 1
    THEN Returned(TRUE, ItoA(delay_minutes) \o T_mins_late)
    ELSE Returned(FALSE, T_On_Time)

\* a plausible slip: the singular wording is never chosen
DelayBranch_alwaysPlural(delay_minutes) ==
    IF delay_minutes < 0
    THEN Returned(TRUE, ItoA(Abs(delay_minutes)) \o T_mins_early)
    ELSE IF delay_minutes > 0
    THEN Returned(TRUE, ItoA(delay_minutes) \o T_mins_late)
    ELSE Returned(FALSE, T_On_Time)

\* the message chosen from delay_minutes = timeValEstimated - timeValScheduled
DelayBranch(delay_minutes) ==
    IF delay_minutes < 0
    THEN IF Abs(delay_minutes) = 1
         THEN Returned(TRUE, <<"1">> \o T_min_early)
         ELSE Returned(TRUE, ItoA(Abs(delay_minutes)) \o T_mins_early)
    ELSE IF delay_minutes > 0
    THEN IF delay_minutes = 1
         THEN Returned(TRUE, <<"1">> \o T_min_late)
         ELSE Returned(TRUE, ItoA(delay_minutes) \o T_mins_late)
    ELSE Returned(FALSE, T_On_Time)

\* a plausible slip: the Cancelled test moved in front of the On test
delayCalc_cancelFirst(s, e) ==
    IF ~Truthy(s) \/ ~Truthy(e) \/ ~StartsLikeTime(s) \/ ~StartsLikeTime(e)
    THEN IF (Truthy(s) /\ Contains(Upper(s), T_CAN)) \/ (Truthy(e) /\ Contains(Upper(e), T_CAN))
         THEN Returned(TRUE, T_Cancelled)
         ELSE StatusBranch(s, e)
    ELSE IF ~ParsesAsTime(s) \/ ~ParsesAsTime(e)
    THEN Raised
    ELSE DelayBranch(TimeVal(e) - TimeVal(s))

delayCalc(s, e) ==
    IF ~Truthy(s) \/ ~Truthy(e) \/ ~StartsLikeTime(s) \/ ~StartsLikeTime(e)
    THEN StatusBranch(s, e)
    ELSE IF ~ParsesAsTime(s) \/ ~ParsesAsTime(e)
    THEN Raised
    ELSE DelayBranch(TimeVal(e) - TimeVal(s))

(***************************************************************************)
(* device_manager._build_calling_points_string                             *)
(***************************************************************************)

T_On_time_const == T_On_time   \* constants.TrainStatus.ON_TIME.value

\* one pass of the loop body: the text added for a calling point, '' when
\* the body raised (a None time) and the except clause swallowed it
CallingPointText(cp) ==
    IF cp.et = NoneTok THEN <<>>
    ELSE IF Contains(cp.et, T_On)
    THEN IF cp.st = NoneTok THEN <<>>
         ELSE cp.location_name \o <<"(">> \o cp.st \o <<")", " ">>
    ELSE cp.location_name \o <<"(">> \o cp.et \o <<")", " ">>

RECURSIVE CallingPointsJoined(_)
CallingPointsJoined(points) ==
    IF points = <<>> THEN <<>>
    ELSE CallingPointText(Head(points)) \o CallingPointsJoined(Tail(points))

\* service is the list of subsequent calling points of the ServiceDetails
\* (a missing list is the empty list)
build_calling_points_string(service) ==
    ReplaceAll(CallingPointsJoined(service), T_On_time_const, <<>>)

(***************************************************************************)
(* image_generator._append_train_to_image                                  *)
(***************************************************************************)

T_Arrows == <<">", ">", ">">>
T_ArrowsSp == <<">", ">", ">", " ">>
T_Status == <<"S","t","a","t","u","s">>
T_StatusColon == <<"S","t","a","t","u","s",":">>
T_Destination == <<"D","e","s","t","i","n","a","t","i","o","n">>

MinWordLength == 20

\* the largest count i + 1 <= safe such that remaining[i] == ')' and
\* remaining[i + 1] == ' ' for an index i in safe - 1 .. 1 (0-based), or -1
CutPoint(remaining, safe) ==
    LET hits == {i \in 1..(safe - 1) :
                    /\ i + 1 <= Len(remaining)
                    /\ remaining[i + 1] = ")"
                    /\ i + 1 < Len(remaining)
                    /\ remaining[i + 2] = " "}
    IN IF hits = {} THEN 0 - 1
       ELSE (CHOOSE i \in hits : \A j \in hits : j <= i) + 1

RECURSIVE SplitCallingPoints(_, _)
\* the while loop over remaining
SplitCallingPoints(remaining, safe) ==
    IF Len(remaining) = 0 THEN <<>>
    ELSE IF Len(remaining) <= safe THEN <<T_ArrowsSp \o remaining>>
    ELSE LET cut_point == CutPoint(remaining, safe)
         IN IF cut_point > 0
            THEN <<T_ArrowsSp \o Strip(Take(remaining, cut_point))>>
                 \o SplitCallingPoints(LStrip(Drop(remaining, cut_point)), safe)
            ELSE <<T_ArrowsSp \o Strip(Take(remaining, safe))>>
                 \o SplitCallingPoints(LStrip(Drop(remaining, safe)), safe)

\* the lines appended for the calling points
CallingPointLines(include_calling_points, service, word_length) ==
    IF ~include_calling_points THEN <<>>
    ELSE LET cp_string == build_calling_points_string(service)
             safe_word_length == Max(MinWordLength, word_length)
         IN IF Len(cp_string) = 0 THEN <<>>
            ELSE IF Len(cp_string) <= safe_word_length
            THEN <<T_ArrowsSp \o Strip(cp_string)>>
            ELSE SplitCallingPoints(Strip(cp_string), safe_word_length)

\* str(platform), '' for None and ''
PlatformText(platform) == IF platform = NoneTok \/ platform = <<>> THEN <<>> ELSE platform

\* the entries appended to image_content for one service; raised when
\* delayCalc raised
append_train_to_image(destination, include_calling_points, service, word_length) ==
    LET head == <<"\n">> \o destination.destination_text \o <<",">>
                \o PlatformText(destination.platform) \o <<",">>
                \o destination.std \o <<",">> \o destination.etd \o <<",">>
        Appended(d) ==
            IF d.raised THEN [raised |-> TRUE, lines |-> <<>>]
            ELSE [raised |-> FALSE,
                  lines |->
                     (IF Len(Strip(d.msg)) = 0
                      THEN <<head \o destination.operator_code \o <<"\n">>>>
                      ELSE <<head \o destination.operator_name,
                             T_StatusColon \o d.msg \o <<"\n">>>>)
                     \o CallingPointLines(include_calling_points, service, word_length)]
    IN Appended(delayCalc(destination.std, destination.etd))

(***************************************************************************)
(* image_generator._format_station_board                                   *)
(***************************************************************************)

T_NoDepFrom == <<"*","*"," ","N","o"," ","d","e","p","a","r","t","u","r","e","s"," ",
                 "f","o","u","n","d"," ","f","r","o","m"," ">>
T_DirectTo == <<" ","d","i","r","e","c","t"," ","t","o"," ">>
T_TodayCheck ==
    <<" ","t","o","d","a","y"," ","*","*","\n","*","*"," ","C","h","e","c","k"," ","O","p","e","r","a","t","o","r","s"," ","w","e","b","s","i","t","e"," ">>
    \o <<"f","o","r"," ","m","o","r","e"," ","i","n","f","o","r","m","a","t","i","o","n"," ","o","n"," ","c","u","r","r","e","n","t"," ">>
    \o <<"s","c","h","e","d","u","l","e"," ","a","n","d"," ","i","s","s","u","e","s"," ","*","*">>

\* the two-line notice
NoDeparturesNotice(via_station, location_name, base_via) ==
    IF Len(via_station) # 0
    THEN T_NoDepFrom \o location_name \o T_DirectTo \o base_via \o T_TodayCheck
    ELSE T_NoDepFrom \o location_name \o T_TodayCheck

DestPad == 50
FieldPad == 10
DestWidth == 25
PlatformWidth == 5
TimeWidth == 10
LegacyDestWidth == 35

\* one board line of image_generator._format_station_board
BoardLine(current_line) ==
    IF Contains(current_line, T_Status) THEN current_line
    ELSE IF ~Contains(current_line, T_Arrows)
    THEN LET parts == Split(current_line, ",")
         IN IF Len(parts) >= 5
            THEN Take(parts[1] \o Repeat("-", DestPad), DestWidth)
                 \o Take(parts[2] \o Repeat("-", FieldPad), PlatformWidth) \o <<" ">>
                 \o Take(parts[3] \o Repeat("-", FieldPad), TimeWidth)
                 \o Take(parts[4] \o Repeat("-", FieldPad), TimeWidth)
                 \o parts[5]
            ELSE IF Len(parts) >= 4
            THEN Take(parts[1] \o Repeat("-", DestPad), LegacyDestWidth) \o <<" ">>
                 \o Take(parts[2] \o Repeat("-", FieldPad), TimeWidth)
                 \o Take(parts[3] \o Repeat("-", FieldPad), TimeWidth)
                 \o parts[4]
            ELSE current_line
    ELSE current_line

RECURSIVE FormatLines(_, _, _)
\* the for loop: tot_lines lines were emitted before this entry
FormatLines(image_content, tot_lines, max_lines) ==
    IF image_content = <<>> THEN <<>>
    ELSE BoardLine(Head(image_content)) \o <<"\n">>
         \o (IF tot_lines + 1 > max_lines THEN <<>>
             ELSE FormatLines(Tail(image_content), tot_lines + 1, max_lines))

format_station_board(image_content, departures_found, via_station, location_name, base_via, max_lines) ==
    IF ~departures_found
    THEN NoDeparturesNotice(via_station, location_name, base_via)
    ELSE FormatLines(image_content, 0, max_lines)

(***************************************************************************)
(* text2png_modern.parse_service_data                                      *)
(***************************************************************************)

T_Dashes3 == <<"-", "-", "-">>
T_Unknown == <<"U","n","k","n","o","w","n">>
T_Bus == <<"B","u","s">>

StatusWords == {T_Cancelled, T_Delayed, T_On_time, T_Bus}

\* re.match(r'^(Cancelled|Delayed|On time|Bus)\s*-\s*(.*)', last_field, re.IGNORECASE)
StatusMatch(last_field) ==
    LET words == {w \in StatusWords :
                    /\ Len(last_field) >= Len(w)
                    /\ Upper(SubSeq(last_field, 1, Len(w))) = Upper(w)}
    IN IF words = {} THEN [matched |-> FALSE, group1 |-> <<>>, group2 |-> <<>>]
       ELSE LET w == CHOOSE x \in words : TRUE
                rest == LStrip(Drop(last_field, Len(w)))
            IN IF rest # <<>> /\ Head(rest) = "-"
               THEN [matched |-> TRUE,
                     group1 |-> SubSeq(last_field, 1, Len(w)),
                     group2 |-> LStrip(Tail(rest))]
               ELSE [matched |-> FALSE, group1 |-> <<>>, group2 |-> <<>>]

ParsedService(destination, platform, scheduled, estimated, operator) ==
    [destination |-> destination, platform |-> platform, scheduled |-> scheduled,
     estimated |-> estimated, operator |-> operator, status |-> estimated,
     calling_points |-> <<>>]

\* a plausible slip: the malformed row is dropped without being counted
RejectRow_uncounted(acc) == [acc EXCEPT !.current = FALSE]

\* a plausible slip: the dropped row leaves current_service as it was
RejectRow_keepsCurrent(acc) == [acc EXCEPT !.skipped_lines = @ + 1]

\* malformed_services.append(...); skipped_lines += 1; current_service = None
RejectRow(acc) == [acc EXCEPT !.skipped_lines = @ + 1, !.current = FALSE]

\* the service row branch: acc.services grows, or the row is counted as skipped
ParseServiceRow(acc, line_stripped) ==
    LET parts == StripNonEmpty(ReSplitDashes(line_stripped))
        accept(svc) == [acc EXCEPT !.services = Append(@, svc), !.current = TRUE]
        reject == RejectRow(acc)
    IN IF Len(parts) >= 5
       THEN accept(ParsedService(parts[1], parts[2], parts[3], parts[4], parts[5]))
       ELSE IF Len(parts) >= 4
       THEN accept(ParsedService(parts[1], <<>>, parts[2], parts[3], parts[4]))
       ELSE IF Len(parts) = 3
       THEN LET status_match == StatusMatch(parts[3])
            IN IF status_match.matched
               THEN accept(ParsedService(parts[1], <<>>, parts[2], status_match.group1,
                              IF status_match.group2 = <<>> THEN T_Unknown
                              ELSE status_match.group2))
               ELSE reject
       ELSE reject

\* the body of the for loop for one line; acc.current says whether
\* current_service is a service (then it is the last of acc.services)
ParseLine(acc, line) ==
    LET line_stripped == Strip(line)
        n == Len(acc.services)
    IN IF line_stripped = <<>> \/ Contains(line_stripped, T_Destination) THEN acc
       ELSE IF /\ Contains(line_stripped, T_Dashes3)
               /\ ~Contains(line_stripped, T_StatusColon)
               /\ ~Contains(line_stripped, T_Arrows)
       THEN ParseServiceRow(acc, line_stripped)
       ELSE IF Contains(line_stripped, T_StatusColon) /\ acc.current
       THEN [acc EXCEPT !.services[n].status =
                Strip(ReplaceAll(line_stripped, T_StatusColon, <<>>))]
       ELSE IF Contains(line_stripped, T_Arrows) /\ acc.current
       THEN LET calling_points == Strip(ReplaceAll(line_stripped, <<">">>, <<>>))
            IN [acc EXCEPT !.services[n].calling_points =
                   IF @ # <<>> THEN @ \o <<" ">> \o calling_points ELSE calling_points]
       ELSE IF Contains(line_stripped, T_Arrows) /\ ~acc.current
       THEN [acc EXCEPT !.skipped_lines = @ + 1]
       ELSE acc

RECURSIVE ParseLines(_, _)
ParseLines(acc, lines) ==
    IF lines = <<>> THEN acc ELSE ParseLines(ParseLine(acc, Head(lines)), Tail(lines))

\* returns the services; skipped_lines is what the summary report prints
parse_service_data(lines) ==
    ParseLines([services |-> <<>>, current |-> FALSE, skipped_lines |-> 0], lines)

(***************************************************************************)
(* plugin.py: its own delayCalc, builder and formatter                     *)
(***************************************************************************)

\* the message chosen from timeValEst - timeValArrival
PluginDelayBranch(diff) ==
    IF diff < 0
    THEN IF Abs(diff) = 1
         THEN Returned(TRUE, ItoA(Abs(diff)) \o T_min_late)
         ELSE Returned(TRUE, ItoA(Abs(diff)) \o T_mins_late)
    ELSE IF diff > 0
    THEN IF Abs(diff) = 1
         THEN Returned(TRUE, ItoA(Abs(diff)) \o T_min_early)
         ELSE Returned(TRUE, ItoA(Abs(diff)) \o T_mins_early)
    ELSE Returned(FALSE, T_On_Time)

plugin_delayCalc(estTime, arrivalTime) ==
    IF ~Truthy(arrivalTime) \/ ~Truthy(estTime)
       \/ ~StartsLikeTime(arrivalTime) \/ ~StartsLikeTime(estTime)
    THEN StatusBranch(arrivalTime, estTime)
    ELSE IF ~ParsesAsTime(arrivalTime) \/ ~ParsesAsTime(estTime)
    THEN Raised
    ELSE PluginDelayBranch(TimeVal(estTime) - TimeVal(arrivalTime))

\* remaining.find(')', start) as a count of characters up to and including
\* the ')' found, 0 when there is none (start >= 0, 0-based)
FindParen(remaining, start) ==
    LET at == {i \in (start + 1)..Len(remaining) : remaining[i] = ")"}
    IN IF at = {} THEN 0 ELSE MinOf(at)

RECURSIVE PluginSplitCallingPoints(_, _)
\* the while loop and the 'Add remaining text' step after it
PluginSplitCallingPoints(remaining, word_length) ==
    LET rest == IF Len(Strip(remaining)) # 0 THEN <<T_ArrowsSp \o remaining>> ELSE <<>>
    IN IF Len(remaining) > word_length
       THEN LET cut == FindParen(remaining, word_length - 1)
            IN IF cut # 0
               THEN <<T_ArrowsSp \o Take(remaining, cut)>>
                    \o PluginSplitCallingPoints(LStrip(Drop(remaining, cut)), word_length)
               ELSE rest
       ELSE rest

\* the lines appended for the calling points (word_length >= 1)
PluginCallingPointLines(include_calling_points, service, word_length) ==
    IF ~include_calling_points THEN <<>>
    ELSE LET cp_string == ReplaceAll(CallingPointsJoined(service), T_On_time, <<>>)
         IN IF Len(cp_string) = 0 THEN <<>>
            ELSE IF Len(cp_string) <= word_length THEN <<T_ArrowsSp \o cp_string>>
            ELSE PluginSplitCallingPoints(cp_string, word_length)

plugin_append_train_to_image(destination, include_calling_points, service, word_length) ==
    LET head == <<"\n">> \o destination.destination_text \o <<",">>
                \o destination.std \o <<",">> \o destination.etd \o <<",">>
        Appended(d) ==
            IF d.raised THEN [raised |-> TRUE, lines |-> <<>>]
            ELSE [raised |-> FALSE,
                  lines |->
                     (IF Len(Strip(d.msg)) = 0
                      THEN <<head \o destination.operator_code \o <<"\n">>>>
                      ELSE <<head \o destination.operator_name,
                             T_StatusColon \o d.msg \o <<"\n">>>>)
                     \o PluginCallingPointLines(include_calling_points, service, word_length)]
    IN Appended(plugin_delayCalc(destination.std, destination.etd))

\* one board line of plugin._format_station_board
PluginBoardLine(current_line) ==
    IF Contains(current_line, T_Status) THEN current_line
    ELSE IF ~Contains(current_line, T_Arrows)
    THEN LET parts == Split(current_line, ",")
         IN IF Len(parts) >= 4
            THEN Take(parts[1] \o Repeat("-", DestPad), LegacyDestWidth) \o <<" ">>
                 \o Take(parts[2] \o Repeat("-", FieldPad), TimeWidth)
                 \o Take(parts[3] \o Repeat("-", FieldPad), TimeWidth)
                 \o parts[4]
            ELSE current_line
    ELSE current_line

RECURSIVE PluginFormatLines(_, _, _)
PluginFormatLines(image_content, tot_lines, max_lines) ==
    IF image_content = <<>> THEN <<>>
    ELSE PluginBoardLine(Head(image_content)) \o <<"\n">>
         \o (IF tot_lines + 1 > max_lines THEN <<>>
             ELSE PluginFormatLines(Tail(image_content), tot_lines + 1, max_lines))

plugin_format_station_board(image_content, departures_found, via_station, location_name, base_via, max_lines) ==
    IF ~departures_found
    THEN NoDeparturesNotice(via_station, location_name, base_via)
    ELSE PluginFormatLines(image_content, 0, max_lines)

(***************************************************************************)
(* Device states and _process_train_services (device_manager and plugin)   *)
(***************************************************************************)

MAX_TRAINS_TRACKED == 10

T_NoReason == <<"N","o"," ","r","e","a","s","o","n"," ","p","r","o","v","i","d","e","d">>

\* the states of one train slot as _clear_device_states leaves them
ClearedTrain ==
    [Dest |-> <<>>, Op |-> <<>>, Sch |-> <<>>, Est |-> <<>>, Platform |-> <<>>,
     Delay |-> <<>>, Issue |-> FALSE, Reason |-> <<>>, Calling |-> <<>>]

ClearedStates == [n \in 1..MAX_TRAINS_TRACKED |-> ClearedTrain]

\* device_manager._update_train_device_states; the updates made before a
\* raise of delayCalc stay on the device
update_train_device_states(states, train_num, destination, service, include_calling_points) ==
    LET basic == [states[train_num] EXCEPT
                    !.Dest = destination.destination_text,
                    !.Op = destination.operator_name,
                    !.Sch = destination.std,
                    !.Est = destination.etd,
                    !.Platform = PlatformText(destination.platform)]
        Updated(d) ==
            IF d.raised
            THEN [raised |-> TRUE, states |-> [states EXCEPT ![train_num] = basic]]
            ELSE [raised |-> FALSE,
                  states |-> [states EXCEPT ![train_num] =
                     [basic EXCEPT
                        !.Delay = d.msg,
                        !.Issue = d.problem,
                        !.Reason = IF Contains(d.msg, T_On_time_const) THEN <<>> ELSE T_NoReason,
                        !.Calling = IF include_calling_points
                                    THEN build_calling_points_string(service)
                                    ELSE @]]]
    IN Updated(delayCalc(destination.std, destination.etd))

\* plugin._update_train_device_states (no Platform state, 'On Time' test)
plugin_update_train_device_states(states, train_num, destination, service, include_calling_points) ==
    LET basic == [states[train_num] EXCEPT
                    !.Dest = destination.destination_text,
                    !.Op = destination.operator_name,
                    !.Sch = destination.std,
                    !.Est = destination.etd]
        Updated(d) ==
            IF d.raised
            THEN [raised |-> TRUE, states |-> [states EXCEPT ![train_num] = basic]]
            ELSE [raised |-> FALSE,
                  states |-> [states EXCEPT ![train_num] =
                     [basic EXCEPT
                        !.Delay = d.msg,
                        !.Issue = d.problem,
                        !.Reason = IF Contains(d.msg, T_On_Time) THEN <<>> ELSE T_NoReason,
                        !.Calling = IF include_calling_points
                                    THEN ReplaceAll(CallingPointsJoined(service), T_On_time, <<>>)
                                    ELSE @]]]
    IN Updated(plugin_delayCalc(destination.std, destination.etd))

\* darwin_api._fetch_service_details: the details, or None when the upstream
\* call failed; item.fetch_fails is the upstream's answer for this service
FetchFailed(item) == item.fetch_fails

\* the accumulator of the loop of _process_train_services
ProcessStart(states, image_content) ==
    [states |-> states, image_content |-> image_content, departures_found |-> FALSE,
     fetched |-> <<>>, processed |-> <<>>, raised |-> FALSE]

\* services[:constants.MAX_TRAINS_TRACKED]
Capped(services) == Take(services, MAX_TRAINS_TRACKED)

RECURSIVE ProcessLoop(_, _, _, _, _)
\* device_manager._process_train_services from train_num on
ProcessLoop(acc, services, train_num, include_calling_points, word_length) ==
    IF train_num > Len(services) THEN acc
    ELSE LET destination == services[train_num]
             fetchedAcc == [acc EXCEPT !.fetched = Append(@, destination.service_id)]
         IN IF FetchFailed(destination)
            THEN ProcessLoop(fetchedAcc, services, train_num + 1, include_calling_points, word_length)
            ELSE LET Step(upd, app) ==
                        IF upd.raised \/ app.raised
                        THEN [fetchedAcc EXCEPT !.departures_found = TRUE, !.states = upd.states,
                                                !.raised = TRUE]
                        ELSE ProcessLoop([fetchedAcc EXCEPT
                                            !.departures_found = TRUE,
                                            !.states = upd.states,
                                            !.image_content = @ \o app.lines,
                                            !.processed = Append(@, destination.service_id)],
                                         services, train_num + 1, include_calling_points, word_length)
                 IN Step(update_train_device_states(acc.states, train_num, destination,
                                                    destination.calling, include_calling_points),
                         append_train_to_image(destination, include_calling_points,
                                               destination.calling, word_length))

process_train_services(states, services, image_content, include_calling_points, word_length) ==
    ProcessLoop(ProcessStart(states, image_content), Capped(services), 1,
                include_calling_points, word_length)

RECURSIVE PluginProcessLoop(_, _, _, _, _)
\* plugin._process_train_services from train_num on
PluginProcessLoop(acc, services, train_num, include_calling_points, word_length) ==
    IF train_num > Len(services) THEN acc
    ELSE LET destination == services[train_num]
             fetchedAcc == [acc EXCEPT !.departures_found = TRUE,
                                       !.fetched = Append(@, destination.service_id)]
         IN IF FetchFailed(destination)
            THEN PluginProcessLoop(fetchedAcc, services, train_num + 1, include_calling_points, word_length)
            ELSE LET Step(upd, app) ==
                        IF upd.raised \/ app.raised
                        THEN [fetchedAcc EXCEPT !.states = upd.states, !.raised = TRUE]
                        ELSE PluginProcessLoop([fetchedAcc EXCEPT
                                            !.states = upd.states,
                                            !.image_content = @ \o app.lines,
                                            !.processed = Append(@, destination.service_id)],
                                         services, train_num + 1, include_calling_points, word_length)
                 IN Step(plugin_update_train_device_states(acc.states, train_num, destination,
                                                    destination.calling, include_calling_points),
                         plugin_append_train_to_image(destination, include_calling_points,
                                               destination.calling, word_length))

plugin_process_train_services(states, services, image_content, include_calling_points, word_length) ==
    PluginProcessLoop(ProcessStart(states, image_content), Capped(services), 1,
                      include_calling_points, word_length)

(***************************************************************************)
(* Input tokens of delayCalc                                               *)
(***************************************************************************)

\* estimates and schedules lie within MaxDelta minutes of a base time
MaxDelta == 2

BaseTimes == {0, 599, 870, 1438}

MinutesInDay == 1440

\* 'HH:MM' of a minute of the day
HHMM(t) ==
    LET h == t \div 60
        m == t % 60
    IN <<Digits[(h \div 10) + 1], Digits[(h % 10) + 1], ":",
         Digits[(m \div 10) + 1], Digits[(m % 10) + 1]>>

TimeTokens ==
    {HHMM(t) : t \in {m \in 0..(MinutesInDay - 1) : \E b \in BaseTimes : Abs(m - b) <= MaxDelta}}

\* status texts the upstream sends, the empty text and None
StatusTokens == {T_On_time, T_Cancelled, T_CANCELLED, T_Delayed, <<>>, NoneTok,
                 <<"9","9",":","9","9">>}

\* texts that start with 0, 1 or 2 and are not HH:MM
MalformedTokens == {<<"1","4","3","0">>, <<"1","4",":","3","0",":","0","0">>,
                    <<"2"," ","h","r","s">>}

Tokens == TimeTokens \cup StatusTokens \cup MalformedTokens

NotCalled == [raised |-> FALSE, problem |-> FALSE, msg |-> <<"-">>]

InitDelay ==
    /\ scheduled_time \in Tokens
    /\ estimated_time \in Tokens
    /\ delayResult = NotCalled

IdleDelay ==
    /\ scheduled_time = <<>>
    /\ estimated_time = <<>>
    /\ delayResult = NotCalled

\* one call of delayCalc(scheduled_time, estimated_time)
CallDelayCalc ==
    /\ delayResult = NotCalled
    /\ delayResult' = delayCalc(scheduled_time, estimated_time)
    /\ UNCHANGED <<scheduled_time, estimated_time>>
    /\ UNCHANGED <<boardVars, procVars, hashVars, dispVars, routeVars, pollVars, fetchVars, parseVars, splitVars, drawVars>>

DelayCalled == delayResult # NotCalled

(***************************************************************************)
(* Builder and modern parser on one service record                         *)
(***************************************************************************)

\* destinations are the prefixes of a long station name, up to MaxDestLen
MaxDestLen == 31

LongStation == <<"L","o","n","d","o","n"," ","S","t"," ","P","a","n","c","r","a","s"," ","I","n","t","e","r","n","a","t","i","o","n","a","l">>

Destinations ==
    {Take(LongStation, n) : n \in {k \in 1..MaxDestLen : k <= Len(LongStation) /\ LongStation[k] # " "}}

Platforms == {<<"4">>, <<"1","2","A">>, <<>>, NoneTok}

T_1430 == HHMM(870)
T_1435 == HHMM(875)

BoardEstimates == {T_1430, T_1435, T_On_time, T_Cancelled, <<"1","4","3","0">>}

OperatorNames == {<<"G","W","R">>, <<"S","o","u","t","h"," ","W","e","s","t","e","r","n"," ","R","a","i","l","w","a","y">>}

CP_Reading == [location_name |-> <<"R","e","a","d","i","n","g">>, st |-> <<"1","0",":","1","5">>, et |-> T_On_time]
CP_Oxford == [location_name |-> <<"O","x","f","o","r","d">>, st |-> <<"1","0",":","4","5">>, et |-> <<"1","0",":","5","0">>]
CP_Didcot == [location_name |-> <<"D","i","d","c","o","t">>, st |-> <<"1","0",":","3","0">>, et |-> NoneTok]

CallingLists == {<<>>, <<CP_Reading>>, <<CP_Reading, CP_Didcot, CP_Oxford>>}

WordLengths == {0, 80}

\* header entry of image_content (plugin.routeUpdate)
ImageHeader == <<"D","e","s","t","i","n","a","t","i","o","n",",","S","c","h",",","E","s","t",",","B","y">>

\* max_lines passed by routeUpdate
MaxLines == 30

LocationName == <<"P","A","D">>

NotBuilt == <<"NOT BUILT">>
BuildRaised == <<"RAISED">>
NotParsed == [services |-> <<>>, current |-> FALSE, skipped_lines |-> 0 - 1]

ServiceRecords ==
    [destination_text : Destinations, platform : Platforms, std : {T_1430},
     etd : BoardEstimates, operator_code : {<<"G","W">>}, operator_name : OperatorNames,
     calling : CallingLists, include_calling_points : BOOLEAN, word_length : WordLengths]

InitBoard ==
    /\ svcRecord \in ServiceRecords
    /\ stationBoard = NotBuilt
    /\ parsedBoard = NotParsed

IdleBoard ==
    /\ svcRecord = <<>>
    /\ stationBoard = NotBuilt
    /\ parsedBoard = NotParsed

\* image_content = [header]; _append_train_to_image(...); _format_station_board(...)
BuildBoard ==
    /\ stationBoard = NotBuilt
    /\ LET appended == append_train_to_image(svcRecord, svcRecord.include_calling_points,
                                             svcRecord.calling, svcRecord.word_length)
       IN stationBoard' =
            IF appended.raised THEN BuildRaised
            ELSE format_station_board(<<ImageHeader>> \o appended.lines, TRUE, <<>>,
                                      LocationName, <<>>, MaxLines)
    /\ UNCHANGED <<svcRecord, parsedBoard>>
    /\ UNCHANGED <<delayVars, procVars, hashVars, dispVars, routeVars, pollVars, fetchVars, parseVars, splitVars, drawVars>>

\* the modern renderer reads the lines of the text and parses them
ParseBoard ==
    /\ stationBoard \notin {NotBuilt, BuildRaised}
    /\ parsedBoard = NotParsed
    /\ parsedBoard' = parse_service_data(Split(stationBoard, "\n"))
    /\ UNCHANGED <<svcRecord, stationBoard>>
    /\ UNCHANGED <<delayVars, procVars, hashVars, dispVars, routeVars, pollVars, fetchVars, parseVars, splitVars, drawVars>>

(***************************************************************************)
(* Service processing on one fetched board                                 *)
(***************************************************************************)

\* a board carries up to MaxServices services, of which at most two are not
\* plain late services
MaxServices == 11

SpecialKinds == {"fetchfail", "malformed", "ontime", "onstatus"}

T_Stn == <<"S","t","n">>
T_Waterloo == <<"L","o","n","d","o","n"," ","W","a","t","e","r","l","o","o">>
T_ViaWaterloo == <<"(","v","i","a",":","L","o","n","d","o","n"," ","W","a","t","e","r","l","o","o",")">>

\* the service at position i of the board, of the given kind
ServiceItem(i, kind) ==
    [destination_text |-> T_Stn \o ItoA(i),
     platform |-> <<"4">>,
     std |-> T_1430,
     etd |-> IF kind = "malformed" THEN <<"1","4","3","0">>
             ELSE IF kind = "ontime" THEN T_1430
             ELSE IF kind = "onstatus" THEN T_On_time
             ELSE T_1435,
     operator_code |-> <<"G","W">>,
     operator_name |-> <<"G","W","R">>,
     service_id |-> i,
     fetch_fails |-> (kind = "fetchfail"),
     calling |-> <<CP_Reading>>]

\* assignments of a kind to every position 1..n with at most two positions
\* (a and b) that are not plain
SparseKindMaps(n) ==
    {[i \in 1..n |-> IF i = a THEN ka ELSE IF i = b THEN kb ELSE "late"] :
        a \in 0..n, b \in 0..n, ka \in SpecialKinds, kb \in SpecialKinds}

Boards ==
    UNION {{[i \in 1..n |-> ServiceItem(i, k[i])] : k \in SparseKindMaps(n)} : n \in 0..MaxServices}

ProcInputs ==
    [services : Boards, include_calling_points : BOOLEAN, filtered : BOOLEAN]

NotProcessed == [done |-> FALSE]

InitProc ==
    /\ procInput \in ProcInputs
    /\ procDM = NotProcessed
    /\ procPL = NotProcessed

IdleProc ==
    /\ procInput = <<>>
    /\ procDM = NotProcessed
    /\ procPL = NotProcessed

\* word_length passed by routeUpdate
RouteWordLength == 80

ViaStation(filtered) == IF filtered THEN T_ViaWaterloo ELSE <<>>

\* the effects of a run of the loop and the board body formatted from it;
\* no body is formatted when the loop raised
Processed(result, body) ==
    [done |-> TRUE, raised |-> result.raised, states |-> result.states,
     image_content |-> result.image_content, departures_found |-> result.departures_found,
     fetched |-> result.fetched, processed |-> result.processed,
     body |-> IF result.raised THEN <<>> ELSE body]

\* device_manager._process_train_services on a cleared device, then
\* image_generator._format_station_board
ProcessDM ==
    /\ procDM = NotProcessed /\ procPL = NotProcessed
    /\ LET Formatted(result) ==
                Processed(result,
                          format_station_board(result.image_content, result.departures_found,
                                               ViaStation(procInput.filtered), LocationName,
                                               T_Waterloo, MaxLines))
       IN procDM' = Formatted(process_train_services(ClearedStates, procInput.services,
                                  <<ImageHeader>>, procInput.include_calling_points,
                                  RouteWordLength))
    /\ UNCHANGED <<procInput, procPL>>
    /\ UNCHANGED <<delayVars, boardVars, hashVars, dispVars, routeVars, pollVars, fetchVars, parseVars, splitVars, drawVars>>

\* plugin._process_train_services on a cleared device, then
\* plugin._format_station_board
ProcessPL ==
    /\ procDM = NotProcessed /\ procPL = NotProcessed
    /\ LET Formatted(result) ==
                Processed(result,
                          plugin_format_station_board(result.image_content, result.departures_found,
                                               ViaStation(procInput.filtered), LocationName,
                                               T_Waterloo, MaxLines))
       IN procPL' = Formatted(plugin_process_train_services(ClearedStates, procInput.services,
                                  <<ImageHeader>>, procInput.include_calling_points,
                                  RouteWordLength))
    /\ UNCHANGED <<procInput, procDM>>
    /\ UNCHANGED <<delayVars, boardVars, hashVars, dispVars, routeVars, pollVars, fetchVars, parseVars, splitVars, drawVars>>

(***************************************************************************)
(* image_generator.compute_board_content_hash                              *)
(***************************************************************************)

\* SHA-256 is taken as collision-free: a digest is identified with the
\* bytes fed to the hasher, update() after update()
compute_board_content_hash(board_content, params_file) ==
    board_content \o Strip(params_file)

\* file contents are the texts over HashAlphabet of at most MaxTextLen characters
MaxTextLen == 2

HashAlphabet == {"a", "\n"}

RECURSIVE TextsOfLen(_)
TextsOfLen(n) ==
    IF n = 0 THEN {<<>>}
    ELSE {Append(t, c) : t \in TextsOfLen(n - 1), c \in HashAlphabet}

HashTexts == UNION {TextsOfLen(n) : n \in 0..MaxTextLen}

HashPairs == [board : HashTexts, params : HashTexts]

NoDigests == <<>>

InitHash ==
    /\ hashInputs \in [1..2 -> HashPairs]
    /\ hashDigests = NoDigests

IdleHash ==
    /\ hashInputs = <<>>
    /\ hashDigests = NoDigests

\* the hash of each of the two file pairs
ComputeHashes ==
    /\ hashDigests = NoDigests
    /\ hashDigests' = [i \in 1..2 |->
            compute_board_content_hash(hashInputs[i].board, hashInputs[i].params)]
    /\ UNCHANGED hashInputs
    /\ UNCHANGED <<delayVars, boardVars, procVars, dispVars, routeVars, pollVars, fetchVars, parseVars, splitVars, drawVars>>

(***************************************************************************)
(* image_generator._generate_single_image / _generate_departure_image      *)
(***************************************************************************)

\* how a render process ends: its exit code, the 10 s timeout, a missing
\* interpreter, or another exception of subprocess.run
ChildOutcomes == {"exit0", "exit1", "exit2", "exit3", "exit_other",
                  "timeout", "not_found", "exception"}

\* what subprocess.run raises for each way the render process can end
SubprocessRaises(outcome) ==
    CASE outcome = "timeout" -> "TimeoutExpired"
      [] outcome = "not_found" -> "FileNotFoundError"
      [] outcome = "exception" -> "Exception"
      [] OTHER -> "none"

\* the except clauses of _generate_single_image; the last one catches Exception
SingleImageHandlers == {"TimeoutExpired", "FileNotFoundError", "Exception"}

\* a plausible slip: an unknown exit code taken for a success
generate_single_image_lenient(outcome) == outcome \in {"exit0", "exit_other"}

\* returns True only for return code 0; every exception is caught
generate_single_image(outcome) == outcome = "exit0"

\* one call seen from the caller: the returned value and whether it raised
single_image_call(style, outcome) ==
    LET exc == SubprocessRaises(outcome)
        escaped == exc # "none" /\ exc \notin SingleImageHandlers
    IN [called |-> TRUE, style |-> style, outcome |-> outcome,
        returned |-> ~escaped /\ generate_single_image(outcome),
        raised |-> escaped]

NoSingleCall ==
    [called |-> FALSE, style |-> "", outcome |-> "", returned |-> FALSE, raised |-> FALSE]

\* plugin_prefs.get('generateClassicBoard', True); NoPrefs is plugin_prefs=None
NoPrefs == [given |-> FALSE, classic |-> FALSE, modern |-> FALSE]

PrefsSet == {NoPrefs} \cup [given : {TRUE}, classic : BOOLEAN, modern : BOOLEAN]

GenerateClassic(prefs) == IF prefs.given THEN prefs.classic ELSE TRUE

GenerateModern(prefs) == IF prefs.given THEN prefs.modern ELSE FALSE

\* a plausible slip: the modern board is only tried after a classic success
generate_departure_image_chained(prefs, outcome) ==
    LET generate_classic == GenerateClassic(prefs)
        classic_success == generate_classic /\ generate_single_image(outcome["classic"])
        generate_modern == GenerateModern(prefs) /\ (classic_success \/ ~generate_classic)
        modern_success == generate_modern /\ generate_single_image(outcome["modern"])
        ok == classic_success \/ modern_success
    IN [done |-> TRUE,
        attempts |-> (IF generate_classic THEN <<"classic">> ELSE <<>>)
                     \o (IF generate_modern THEN <<"modern">> ELSE <<>>),
        returned |-> ok,
        imageGenerationStatus |-> IF ok THEN "success" ELSE "failed",
        imageGenerationError |->
            IF ok THEN ""
            ELSE IF ~generate_classic /\ ~generate_modern THEN "No board styles enabled"
            ELSE "All enabled board styles failed to generate",
        logged |-> IF ok THEN "debug"
                   ELSE IF ~generate_classic /\ ~generate_modern THEN "warning"
                   ELSE "error"]

generate_departure_image(prefs, outcome) ==
    LET generate_classic == GenerateClassic(prefs)
        generate_modern == GenerateModern(prefs)
        classic_success == generate_classic /\ generate_single_image(outcome["classic"])
        modern_success == generate_modern /\ generate_single_image(outcome["modern"])
        ok == classic_success \/ modern_success
    IN [done |-> TRUE,
        attempts |-> (IF generate_classic THEN <<"classic">> ELSE <<>>)
                     \o (IF generate_modern THEN <<"modern">> ELSE <<>>),
        returned |-> ok,
        imageGenerationStatus |-> IF ok THEN "success" ELSE "failed",
        imageGenerationError |->
            IF ok THEN ""
            ELSE IF ~generate_classic /\ ~generate_modern THEN "No board styles enabled"
            ELSE "All enabled board styles failed to generate",
        logged |-> IF ok THEN "debug"
                   ELSE IF ~generate_classic /\ ~generate_modern THEN "warning"
                   ELSE "error"]

\* sys.argv of the render process: cmd of _generate_single_image without the
\* interpreter (script, image, text, parameters, dep_flag, board_style)
single_image_argv(departures_available, board_style) ==
    <<"text2png.py", "image.png", "board.txt", "parameters.txt",
      IF departures_available THEN "YES" ELSE "NO", board_style>>

\* what the render process finds on disk
RenderFiles == {"ok", "parameters_unreadable", "parameters_malformed", "text_unreadable",
                "image_unwritable"}

\* the module body of text2png.py: it reads sys.argv[1..4] only, and draws
\* with its own (classic) draw pass; text2png_modern is never imported
text2png(argv, files) ==
    IF Len(argv) < 5 THEN [exit |-> 3, renderer |-> "none"]
    ELSE IF files = "parameters_unreadable" THEN [exit |-> 1, renderer |-> "none"]
    ELSE IF files = "parameters_malformed" THEN [exit |-> 3, renderer |-> "none"]
    ELSE IF files = "text_unreadable" THEN [exit |-> 1, renderer |-> "none"]
    ELSE IF files = "image_unwritable" THEN [exit |-> 1, renderer |-> "classic"]
    ELSE [exit |-> 0, renderer |-> "classic"]

NotStarted == [started |-> FALSE, argv |-> <<>>, exit |-> 0, renderer |-> "none"]

NotDispatched ==
    [done |-> FALSE, attempts |-> <<>>, returned |-> FALSE,
     imageGenerationStatus |-> "", imageGenerationError |-> "", logged |-> ""]

Styles == {"classic", "modern"}

InitDisp ==
    /\ plugin_prefs \in PrefsSet
    /\ childOutcome \in [Styles -> ChildOutcomes]
    /\ dispatch = NotDispatched
    /\ singleImage = NoSingleCall
    /\ renderProc = NotStarted

IdleDisp ==
    /\ plugin_prefs = NoPrefs
    /\ childOutcome = <<>>
    /\ dispatch = NotDispatched
    /\ singleImage = NoSingleCall
    /\ renderProc = NotStarted

\* one call of _generate_departure_image
GenerateDepartureImage ==
    /\ ~dispatch.done
    /\ dispatch' = generate_departure_image(plugin_prefs, childOutcome)
    /\ UNCHANGED <<plugin_prefs, childOutcome, singleImage, renderProc>>
    /\ UNCHANGED <<delayVars, boardVars, procVars, hashVars, routeVars, pollVars, fetchVars, parseVars, splitVars, drawVars>>

\* one call of _generate_single_image for a board style
GenerateSingleImage ==
    /\ ~singleImage.called
    /\ \E board_style \in Styles :
        singleImage' = single_image_call(board_style, childOutcome[board_style])
    /\ UNCHANGED <<plugin_prefs, childOutcome, dispatch, renderProc>>
    /\ UNCHANGED <<delayVars, boardVars, procVars, hashVars, routeVars, pollVars, fetchVars, parseVars, splitVars, drawVars>>

\* the render process started by subprocess.run(cmd) runs to its exit
RunRenderProcess ==
    /\ ~renderProc.started
    /\ \E board_style \in Styles, departures_available \in BOOLEAN, files \in RenderFiles :
        LET Exited(argv, r) ==
                renderProc' = [started |-> TRUE, argv |-> argv, exit |-> r.exit,
                               renderer |-> r.renderer]
            Started(argv) == Exited(argv, text2png(argv, files))
        IN Started(single_image_argv(departures_available, board_style))
    /\ UNCHANGED <<plugin_prefs, childOutcome, dispatch, singleImage>>
    /\ UNCHANGED <<delayVars, boardVars, procVars, hashVars, routeVars, pollVars, fetchVars, parseVars, splitVars, drawVars>>

(***************************************************************************)
(* plugin.routeUpdate and the poll loop of runConcurrentThread             *)
(***************************************************************************)

T_DeparturesDash == <<"D","e","p","a","r","t","u","r","e","s"," ","-"," ">>
T_GeneratedOn == <<"G","e","n","e","r","a","t","e","d"," ","o","n",":">>
T_To == <<" ","t","o"," ">>
T_UKTime == <<" ","U","K"," ","T","i","m","e">>
T_Mon == <<"M","o","n"," ">>
T_PAD == <<"P","A","D">>
T_WAT == <<"W","A","T">>
T_ALL == <<"A","L","L">>
T_Paddington == <<"L","o","n","d","o","n"," ","P","a","d","d","i","n","g","t","o","n">>

TitleWidth == 60

\* getUKTime(): '%a %H:%M:%S' + ' UK Time', the clock starting Monday 14:30:00
StartOfClock == 870

getUKTime(now) == T_Mon \o HHMM(StartOfClock + now) \o <<":","0","0">> \o T_UKTime

\* dev.states['destinationCRS'] of a filtered and of an unfiltered route
DestinationCRS(filtered) == IF filtered THEN T_WAT ELSE T_ALL

\* plugin._clear_device_states: Op and Platform are not among the cleared states
plugin_clear_device_states(states) ==
    [n \in 1..MAX_TRAINS_TRACKED |->
        [states[n] EXCEPT !.Dest = <<>>, !.Sch = <<>>, !.Est = <<>>, !.Delay = <<>>,
                          !.Issue = FALSE, !.Reason = <<>>, !.Calling = <<>>]]

\* a plausible slip: the flag raised for any slot that shows a delay message
plugin_update_station_issues_flag_anyMessage(states) ==
    \E n \in 1..MAX_TRAINS_TRACKED : states[n].Delay # <<>>

\* plugin._update_station_issues_flag
plugin_update_station_issues_flag(states) ==
    \E n \in 1..MAX_TRAINS_TRACKED : states[n].Issue

\* plugin._write_departure_board_text
plugin_write_departure_board_text(station_start, station_end, titles, statistics, messages, board_content) ==
    station_start \o T_To \o station_end \o <<"\n">> \o titles \o statistics
        \o (IF messages # <<>> THEN messages ELSE <<>>) \o board_content

\* how the render process launched by plugin._generate_departure_image ends;
\* the return code is ignored, a launch error propagates
RenderOutcomes == {"exit0", "exit1", "not_found"}

\* a cache in front of the render: skip on an equal digest, and persist the
\* digest whatever the render's outcome
plugin_generate_departure_image_cached(calls, stored, digest, outcome) ==
    IF digest = stored
    THEN [renderCalls |-> calls, storedDigest |-> stored, raised |-> FALSE, rendered |-> FALSE]
    ELSE [renderCalls |-> calls + 1, storedDigest |-> digest, raised |-> outcome = "not_found",
          rendered |-> TRUE]

\* the last step of routeUpdate: plugin._generate_departure_image is called
\* unconditionally; no digest is computed, compared or stored
plugin_generate_departure_image(calls, stored, digest, outcome) ==
    [renderCalls |-> calls + 1, storedDigest |-> stored, raised |-> outcome = "not_found",
     rendered |-> TRUE]

NoCycle ==
    [result |-> "none", wrote |-> FALSE, rendered |-> FALSE, renderOutcome |-> "none",
     sameInputs |-> FALSE, afterFailedRender |-> FALSE, inputs |-> <<>>, digest |-> <<>>,
     env |-> <<>>]

\* a plausible slip: the except clause reports the failure and falls through
fetch_station_board_ok_fallthrough(env) == TRUE

\* try: _fetch_station_board(...) except (suds.WebFault, Exception): return False
fetch_station_board_ok(env) == env.fetch

\* env: enabled (dev.enabled or not dev.configured), login, fetch, write
\* (the text file can be opened), render (a member of RenderOutcomes)
routeUpdate(d, cfg, board, params, now, file, calls, stored, previous, env) ==
    LET inputs == <<board, params>>
        cycle(result) ==
            [NoCycle EXCEPT
                !.result = result, !.inputs = inputs, !.env = env,
                !.sameInputs = (previous.result = "True" /\ previous.inputs = inputs),
                !.afterFailedRender = (previous.rendered /\ previous.renderOutcome # "exit0"
                                        /\ previous.inputs = inputs)]
        Stopped(device, result) ==
            [dev |-> device, boardFile |-> file, renderCalls |-> calls,
             storedDigest |-> stored, cycle |-> cycle(result)]
        time_generated == getUKTime(now)
        via_station == ViaStation(cfg.filtered)
        Rendered(device, text, digest, render) ==
            [dev |-> device, boardFile |-> text, renderCalls |-> render.renderCalls,
             storedDigest |-> render.storedDigest,
             cycle |-> [cycle(IF render.raised THEN "raised" ELSE "True") EXCEPT
                            !.wrote = TRUE, !.rendered = render.rendered,
                            !.renderOutcome = IF render.rendered THEN env.render ELSE "none",
                            !.digest = digest]]
        Hashed(device, text, digest) ==
            Rendered(device, text, digest,
                     plugin_generate_departure_image(calls, stored, digest, env.render))
        Written(device, text) ==
            Hashed(device, text, compute_board_content_hash(text, params))
        Serviced(device, run) ==
            IF run.raised THEN Stopped([device EXCEPT !.states = run.states], "raised")
            ELSE IF ~env.write
            THEN Stopped([device EXCEPT
                            !.states = run.states,
                            !.stationIssues = plugin_update_station_issues_flag(run.states)],
                         "raised")
            ELSE Written([device EXCEPT
                            !.states = run.states,
                            !.stationIssues = plugin_update_station_issues_flag(run.states)],
                         plugin_write_departure_board_text(
                            T_PAD, DestinationCRS(cfg.filtered),
                            Take(T_DeparturesDash \o T_Paddington \o <<" ">> \o via_station
                                    \o Repeat(" ", TitleWidth), TitleWidth) \o <<"\n">>,
                            T_GeneratedOn \o time_generated \o <<"\n">>,
                            <<"\n">>,
                            plugin_format_station_board(run.image_content, run.departures_found,
                                                        via_station, T_Paddington, T_Waterloo,
                                                        MaxLines)))
        Cleared(cleared) ==
            IF ~fetch_station_board_ok(env) THEN Stopped(cleared, "False")
            ELSE Serviced([cleared EXCEPT !.stationLong = T_Paddington,
                                            !.timeGenerated = time_generated],
                            plugin_process_train_services(cleared.states, board, <<ImageHeader>>,
                                                          cfg.include_calling_points,
                                                          RouteWordLength))
    IN IF ~env.enabled THEN Stopped(d, "False")
       ELSE IF ~env.login THEN Stopped(d, "False")
       ELSE Cleared([d EXCEPT !.states = plugin_clear_device_states(@),
                              !.stationIssues = FALSE])

\* the poll loop runs at most MaxCycles cycles of the route
MaxCycles == 2

\* a station has at most MaxRouteServices departures on its board
MaxRouteServices == 1

RouteBoards ==
    UNION {{[i \in 1..n |-> ServiceItem(i, k[i])] : k \in SparseKindMaps(n)} : n \in 0..MaxRouteServices}

T_Params == <<"#","0","F","0",",","#","0","0","0",",","#","F","0","0",",","#","0","F","F",",","#","F","F","F",",","9",",","5",",","5",",","7","2","0">>

ParamsTexts == {T_Params, <<"#","F","0","0">> \o Drop(T_Params, 4)}

NoFile == <<"NO FILE">>
NoDigest == <<"NO DIGEST">>

T_AwaitingUpdate == <<"A","w","a","i","t","i","n","g"," ","u","p","d","a","t","e">>
T_DelaysOrIssues == <<"D","e","l","a","y","s"," ","o","r"," ","i","s","s","u","e","s">>
T_RunningOnTime == <<"R","u","n","n","i","n","g"," ","o","n"," ","t","i","m","e">>

InitialDev ==
    [states |-> ClearedStates, stationIssues |-> FALSE, stationLong |-> <<>>,
     timeGenerated |-> <<>>, deviceStatus |-> <<>>]

\* what the environment answers during one cycle: the first step that fails,
\* or the outcome of the render process when none does
EnvOk(render) ==
    [enabled |-> TRUE, login |-> TRUE, fetch |-> TRUE, write |-> TRUE, render |-> render]

RouteEnvs ==
    {EnvOk(render) : render \in RenderOutcomes}
        \cup {[EnvOk("exit0") EXCEPT !.enabled = FALSE], [EnvOk("exit0") EXCEPT !.login = FALSE],
              [EnvOk("exit0") EXCEPT !.fetch = FALSE], [EnvOk("exit0") EXCEPT !.write = FALSE]}

InitRoute ==
    /\ routeCfg \in [filtered : BOOLEAN, include_calling_points : BOOLEAN]
    /\ upstream \in RouteBoards
    /\ paramsFile \in ParamsTexts
    /\ ukTime = 0
    /\ dev = InitialDev
    /\ boardFile = NoFile
    /\ storedDigest = NoDigest
    /\ renderCalls = 0
    /\ lastCycle = NoCycle

IdleRoute ==
    /\ routeCfg = <<>>
    /\ upstream = <<>>
    /\ paramsFile = <<>>
    /\ ukTime = 0
    /\ dev = InitialDev
    /\ boardFile = NoFile
    /\ storedDigest = NoDigest
    /\ renderCalls = 0
    /\ lastCycle = NoCycle

\* one pass of the poll loop over the route device: routeUpdate, the device
\* status set from its result, then the sleep until the next cycle; what
\* routeUpdate raises ends the loop
PollRoute ==
    /\ ukTime < MaxCycles
    /\ lastCycle.result # "raised"
    /\ LET Refreshed(r) ==
            /\ dev' = [r.dev EXCEPT !.deviceStatus =
                        IF r.cycle.result = "raised" THEN @
                        ELSE IF r.cycle.result = "False" THEN T_AwaitingUpdate
                        ELSE IF r.dev.stationIssues THEN T_DelaysOrIssues
                        ELSE T_RunningOnTime]
            /\ boardFile' = r.boardFile
            /\ renderCalls' = r.renderCalls
            /\ storedDigest' = r.storedDigest
            /\ lastCycle' = r.cycle
       IN \E env \in RouteEnvs :
            Refreshed(routeUpdate(dev, routeCfg, upstream, paramsFile, ukTime, boardFile,
                                  renderCalls, storedDigest, lastCycle, env))
    /\ ukTime' = ukTime + 1
    /\ UNCHANGED <<routeCfg, upstream, paramsFile>>
    /\ UNCHANGED <<delayVars, boardVars, procVars, hashVars, dispVars, pollVars, fetchVars, parseVars, splitVars, drawVars>>

\* between two cycles the first train of the board departs
UpstreamChanges ==
    /\ ukTime < MaxCycles
    /\ upstream # <<>>
    /\ upstream' = Tail(upstream)
    /\ UNCHANGED <<routeCfg, paramsFile, ukTime, dev, boardFile, storedDigest, renderCalls, lastCycle>>
    /\ UNCHANGED <<delayVars, boardVars, procVars, hashVars, dispVars, pollVars, fetchVars, parseVars, splitVars, drawVars>>

(***************************************************************************)
(* parse_service_data on the lines of an arbitrary board body              *)
(***************************************************************************)

RECURSIVE JoinDashes(_)
\* the fields of a row separated by runs of three dashes
JoinDashes(fields) ==
    IF Len(fields) = 1 THEN fields[1]
    ELSE fields[1] \o T_Dashes3 \o JoinDashes(Tail(fields))

RowFields == <<T_Stn \o <<"1">>, <<"4">>, T_1430, T_1435, <<"G","W","R">>>>

\* a service row that splits into n fields, none of them a status word
FieldRow(n) ==
    IF n = 1 THEN RowFields[1] \o T_Dashes3
    ELSE JoinDashes([i \in 1..n |-> IF i <= Len(RowFields) THEN RowFields[i] ELSE <<"x">>])

\* three fields, the third a status word merged with the operator
MergedStatusRow == JoinDashes(<<T_Stn \o <<"2">>, T_1430, T_Cancelled \o <<"-","G","W","R">>>>)

\* three fields, the third a status word on its own
BareStatusRow == JoinDashes(<<T_Stn \o <<"3">>, T_1430, T_Delayed>>)

StatusLine == T_StatusColon \o T_Delayed

CallingLine == T_ArrowsSp \o <<"R","d","g","(","1","0",":","1","5",")">>

MaxFields == 6

BoardRows ==
    {FieldRow(n) : n \in 1..MaxFields}
        \cup {MergedStatusRow, BareStatusRow, StatusLine, CallingLine}

\* a board body has at most MaxRows lines
MaxRows == 3

NotParsedYet == [done |-> FALSE, services |-> <<>>, skipped_lines |-> 0]

InitParse ==
    /\ boardLines \in UNION {[1..n -> BoardRows] : n \in 0..MaxRows}
    /\ parseResult = NotParsedYet

IdleParse ==
    /\ boardLines = <<>>
    /\ parseResult = NotParsedYet

\* one call of parse_service_data(lines)
ParseServiceData ==
    /\ ~parseResult.done
    /\ LET Returned_(r) ==
            parseResult' = [done |-> TRUE, services |-> r.services,
                            skipped_lines |-> r.skipped_lines]
       IN Returned_(parse_service_data(boardLines))
    /\ UNCHANGED boardLines
    /\ UNCHANGED <<delayVars, boardVars, procVars, hashVars, dispVars, routeVars, pollVars, fetchVars, splitVars, drawVars>>

(***************************************************************************)
(* _append_train_to_image: the calling points block on its own             *)
(***************************************************************************)

CP_StPancras ==
    [location_name |-> Take(LongStation, 17), st |-> <<"1","0",":","0","5">>, et |-> T_On_time]

CallingPoints == {CP_Reading, CP_Oxford, CP_Didcot, CP_StPancras}

\* a service has at most MaxCallingPoints subsequent calling points
MaxCallingPoints == 3

SplitWordLengths == {0 - 5, 0, 20, 30, 80}

NotSplit == <<"NOT SPLIT">>

InitSplit ==
    /\ splitInput \in [calling : UNION {[1..n -> CallingPoints] : n \in 0..MaxCallingPoints},
                        word_length : SplitWordLengths]
    /\ splitLines = NotSplit

IdleSplit ==
    /\ splitInput = <<>>
    /\ splitLines = NotSplit

\* the block 'if include_calling_points and service:' of _append_train_to_image
AppendCallingPoints ==
    /\ splitLines = NotSplit
    /\ splitLines' = CallingPointLines(TRUE, splitInput.calling, splitInput.word_length)
    /\ UNCHANGED splitInput
    /\ UNCHANGED <<delayVars, boardVars, procVars, hashVars, dispVars, routeVars, pollVars, fetchVars, parseVars, drawVars>>

(***************************************************************************)
(* text2png.py: the draw loop over the wrapped lines of the timetable      *)
(***************************************************************************)

maxServices == 5

T_StarStar == <<"*","*">>
T_PlusPlus == <<"+","+">>
T_Special == <<"S","p","e","c","i","a","l">>

\* the branch of the if/elif chain a line takes
LineClass(line) ==
    IF Contains(line, T_Destination) THEN "titles"
    ELSE IF Len(line) = 0 THEN "blank"
    ELSE IF Contains(line, T_StarStar) THEN "notice"
    ELSE IF Contains(line, T_PlusPlus) THEN "message"
    ELSE IF Contains(line, T_Status) THEN "status"
    ELSE IF ~Contains(line, <<">">>) THEN "service"
    ELSE "calling"

DrawStart == [drawn |-> <<>>, currentService |-> 0, noMoreTrains |-> FALSE]

\* the body of the branch "elif '>' not in line" below the break
DrawService(acc, line) ==
    [drawn |-> Append(acc.drawn, [class |-> "service", text |-> line]),
     currentService |-> acc.currentService + 1,
     noMoreTrains |-> acc.currentService + 1 > maxServices]

RECURSIVE DrawLoop(_, _)
\* for line in lines: ...; a blank line draws nothing, the break ends the loop
DrawLoop(acc, lines) ==
    IF lines = <<>> THEN acc
    ELSE LET line == Head(lines)
             class == LineClass(line)
         IN IF class = "blank" THEN DrawLoop(acc, Tail(lines))
            ELSE IF class = "service"
            THEN IF acc.noMoreTrains THEN acc
                 ELSE DrawLoop(DrawService(acc, line), Tail(lines))
            ELSE DrawLoop([acc EXCEPT !.drawn =
                                Append(@, [class |-> class,
                                           text |-> IF class = "message"
                                                    THEN ReplaceAll(line, <<"+">>, <<>>)
                                                    ELSE IF class = "calling"
                                                    THEN ReplaceAll(line, <<">">>, <<" ">>)
                                                    ELSE line])],
                          Tail(lines))

draw_loop(lines) == DrawLoop(DrawStart, lines)

\* a board body of the text file has at most MaxDrawnServices service rows
MaxDrawnServices == 8

\* the wrapped line of service row i: the dashes of the row are spaces
DrawnServiceRow(i, est) ==
    T_Stn \o ItoA(i) \o <<" ","4"," ">> \o T_1430 \o <<" ">> \o est \o <<" ","G","W","R">>

RECURSIVE DrawnBody(_, _, _, _, _)
\* rows i..n, each followed by its status line and its calling-points line
DrawnBody(i, n, est, with_status, with_calling) ==
    IF i > n THEN <<>>
    ELSE <<DrawnServiceRow(i, est)>>
         \o (IF with_status THEN <<T_StatusColon \o T_Delayed>> ELSE <<>>)
         \o (IF with_calling THEN <<CallingLine>> ELSE <<>>)
         \o <<<<>>>>
         \o DrawnBody(i + 1, n, est, with_status, with_calling)

DrawnTitles == T_Destination \o <<" ">> \o <<"S","c","h"," ","E","s","t"," ","B","y">>

DrawnBoards ==
    {<<<<>>, DrawnTitles, <<>>>> \o DrawnBody(1, n, est, with_status, with_calling) :
        n \in 0..MaxDrawnServices, est \in {T_1435, T_On_time, T_Cancelled},
        with_status \in BOOLEAN, with_calling \in BOOLEAN}

NotDrawn == [done |-> FALSE, drawn |-> <<>>]

InitDraw ==
    /\ drawLines \in DrawnBoards
    /\ drawPass = NotDrawn

IdleDraw ==
    /\ drawLines = <<>>
    /\ drawPass = NotDrawn

\* the draw loop of text2png.py over lines
DrawBoard ==
    /\ ~drawPass.done
    /\ LET Drawn(r) == drawPass' = [done |-> TRUE, drawn |-> r.drawn]
       IN Drawn(draw_loop(drawLines))
    /\ UNCHANGED drawLines
    /\ UNCHANGED <<delayVars, boardVars, procVars, hashVars, dispVars, routeVars, pollVars, fetchVars, parseVars, splitVars>>

(***************************************************************************)
(* Plugin.runConcurrentThread: the poll loop over the route devices        *)
(***************************************************************************)

\* the loop visits NumRoutes route devices in each iteration
NumRoutes == 2

\* the loop is followed for at most MaxPollIterations iterations
MaxPollIterations == 2

PlainBoard == <<ServiceItem(1, "late")>>

UnparseableBoard == <<ServiceItem(1, "malformed")>>

\* one route device of the loop: dev.states['deviceActive'], the board the
\* upstream returns for it and what the environment answers to routeUpdate
PollScenarios ==
    {[active |-> TRUE, board |-> PlainBoard, env |-> EnvOk("exit0")],
     [active |-> FALSE, board |-> PlainBoard, env |-> EnvOk("exit0")],
     [active |-> TRUE, board |-> PlainBoard, env |-> [EnvOk("exit0") EXCEPT !.login = FALSE]],
     [active |-> TRUE, board |-> PlainBoard, env |-> [EnvOk("exit0") EXCEPT !.fetch = FALSE]],
     [active |-> TRUE, board |-> PlainBoard, env |-> [EnvOk("exit0") EXCEPT !.write = FALSE]],
     [active |-> TRUE, board |-> UnparseableBoard, env |-> EnvOk("exit0")]}

T_NotActive == <<"N","o","t"," ","a","c","t","i","v","e">>

NotAttempted == [result |-> "none", deviceStatus |-> <<>>]

\* the body of the for loop for one device: routeUpdate is called outside any
\* try block, so what it raises leaves the for loop and the while loop
poll_device(route, now) ==
    IF ~route.active THEN [result |-> "inactive", deviceStatus |-> T_NotActive]
    ELSE LET Refreshed(r) ==
                [result |-> r.cycle.result,
                 deviceStatus |->
                    IF r.cycle.result = "raised" THEN <<>>
                    ELSE IF r.cycle.result = "False" THEN T_AwaitingUpdate
                    ELSE IF r.dev.stationIssues THEN T_DelaysOrIssues
                    ELSE T_RunningOnTime]
         IN Refreshed(routeUpdate(InitialDev,
                                  [filtered |-> FALSE, include_calling_points |-> FALSE],
                                  route.board, T_Params, now, NoFile, 0, NoDigest, NoCycle,
                                  route.env))

StartOfLoop ==
    [iteration |-> 1, position |-> 1, alive |-> TRUE,
     attempted |-> [i \in 1..NumRoutes |-> NotAttempted]]

InitPoll ==
    /\ pollRoutes \in [1..NumRoutes -> PollScenarios]
    /\ pollLoop = StartOfLoop

IdlePoll ==
    /\ pollRoutes = <<>>
    /\ pollLoop = StartOfLoop

\* the for loop reaches the next route device
PollDevice ==
    /\ pollLoop.alive
    /\ pollLoop.position <= NumRoutes
    /\ LET Visited(outcome) ==
            pollLoop' = [pollLoop EXCEPT
                            !.attempted[pollLoop.position] = outcome,
                            !.alive = outcome.result # "raised",
                            !.position = IF outcome.result = "raised" THEN @ ELSE @ + 1]
       IN Visited(poll_device(pollRoutes[pollLoop.position], pollLoop.iteration))
    /\ UNCHANGED pollRoutes
    /\ UNCHANGED <<delayVars, boardVars, procVars, hashVars, dispVars, routeVars, fetchVars, parseVars, splitVars, drawVars>>

\* self.sleep(refreshFreq), then the next iteration of the while loop
PollSleep ==
    /\ pollLoop.alive
    /\ pollLoop.position > NumRoutes
    /\ pollLoop.iteration < MaxPollIterations
    /\ pollLoop' = [StartOfLoop EXCEPT !.iteration = pollLoop.iteration + 1]
    /\ UNCHANGED pollRoutes
    /\ UNCHANGED <<delayVars, boardVars, procVars, hashVars, dispVars, routeVars, fetchVars, parseVars, splitVars, drawVars>>

(***************************************************************************)
(* darwin_api: darwin_api_retry, _fetch_station_board,                     *)
(* _fetch_service_details                                                  *)
(***************************************************************************)

\* how one upstream call ends: it answers, or raises one of these
UpstreamOutcomes == {"ok", "WebFault", "ConnectionError", "TimeoutError", "ValueError"}

\* retry_if_exception_type((WebFault, ConnectionError, TimeoutError))
RetriedExceptions == {"WebFault", "ConnectionError", "TimeoutError"}

\* @darwin_api_retry(max_attempts=3) and @darwin_api_retry(max_attempts=2)
StationBoardMaxAttempts == 3
ServiceDetailsMaxAttempts == 2

\* the body of _fetch_station_board: the upstream call is not guarded
fetch_station_board_body(answer) ==
    IF answer = "ok" THEN [raised |-> FALSE, exc |-> "none", value |-> "board"]
    ELSE [raised |-> TRUE, exc |-> answer, value |-> "none"]

\* the body of _fetch_service_details: both except clauses return None
fetch_service_details_body(answer) ==
    IF answer = "ok" THEN [raised |-> FALSE, exc |-> "none", value |-> "service"]
    ELSE [raised |-> FALSE, exc |-> "none", value |-> "None"]

FetchBody(fn, answer) ==
    IF fn = "_fetch_station_board" THEN fetch_station_board_body(answer)
    ELSE fetch_service_details_body(answer)

RECURSIVE RetryAttempt(_, _, _, _, _)
\* tenacity's retry(stop=stop_after_attempt(max_attempts), retry=..., reraise=True)
\* around the body; without tenacity the decorator is the identity
RetryAttempt(fn, max_attempts, answers, tenacity, n) ==
    LET Decide(r) ==
            IF r.raised /\ r.exc \in RetriedExceptions /\ tenacity /\ n < max_attempts
            THEN RetryAttempt(fn, max_attempts, answers, tenacity, n + 1)
            ELSE [called |-> TRUE, attempts |-> n, raised |-> r.raised, exc |-> r.exc,
                  value |-> r.value]
    IN Decide(FetchBody(fn, answers[n]))

darwin_api_retry(fn, max_attempts, answers, tenacity) ==
    RetryAttempt(fn, max_attempts, answers, tenacity, 1)

\* the upstream is observed for MaxAnswers successive calls
MaxAnswers == 3

NoFetch == [called |-> FALSE, attempts |-> 0, raised |-> FALSE, exc |-> "none", value |-> "none"]

InitFetch ==
    /\ upstreamAnswers \in [answers : [1..MaxAnswers -> UpstreamOutcomes], tenacity : BOOLEAN]
    /\ fetchCalls = [board |-> NoFetch, details |-> NoFetch]

IdleFetch ==
    /\ upstreamAnswers = <<>>
    /\ fetchCalls = [board |-> NoFetch, details |-> NoFetch]

\* one call of _fetch_station_board
FetchStationBoard ==
    /\ ~fetchCalls.board.called
    /\ fetchCalls' = [fetchCalls EXCEPT !.board =
                        darwin_api_retry("_fetch_station_board", StationBoardMaxAttempts,
                                         upstreamAnswers.answers, upstreamAnswers.tenacity)]
    /\ UNCHANGED upstreamAnswers
    /\ UNCHANGED <<delayVars, boardVars, procVars, hashVars, dispVars, routeVars, pollVars, parseVars, splitVars, drawVars>>

\* one call of _fetch_service_details
FetchServiceDetails ==
    /\ ~fetchCalls.details.called
    /\ fetchCalls' = [fetchCalls EXCEPT !.details =
                        darwin_api_retry("_fetch_service_details", ServiceDetailsMaxAttempts,
                                         upstreamAnswers.answers, upstreamAnswers.tenacity)]
    /\ UNCHANGED upstreamAnswers
    /\ UNCHANGED <<delayVars, boardVars, procVars, hashVars, dispVars, routeVars, pollVars, parseVars, splitVars, drawVars>>

(***************************************************************************)
(* Specifications                                                          *)
(***************************************************************************)

NextDelay == CallDelayCalc

StartDelay == InitDelay /\ IdleBoard /\ IdleProc /\ IdleHash /\ IdleDisp /\ IdleRoute /\ IdlePoll /\ IdleFetch /\ IdleParse /\ IdleSplit /\ IdleDraw

SpecDelay == StartDelay /\ [][NextDelay]_vars

NextBoard == BuildBoard \/ ParseBoard

StartBoard == InitBoard /\ IdleDelay /\ IdleProc /\ IdleHash /\ IdleDisp /\ IdleRoute /\ IdlePoll /\ IdleFetch /\ IdleParse /\ IdleSplit /\ IdleDraw

SpecBoard == StartBoard /\ [][NextBoard]_vars

NextProc == ProcessDM \/ ProcessPL

StartProc == InitProc /\ IdleDelay /\ IdleBoard /\ IdleHash /\ IdleDisp /\ IdleRoute /\ IdlePoll /\ IdleFetch /\ IdleParse /\ IdleSplit /\ IdleDraw

SpecProc == StartProc /\ [][NextProc]_vars

NextHash == ComputeHashes

StartHash == InitHash /\ IdleDelay /\ IdleBoard /\ IdleProc /\ IdleDisp /\ IdleRoute /\ IdlePoll /\ IdleFetch /\ IdleParse /\ IdleSplit /\ IdleDraw

SpecHash == StartHash /\ [][NextHash]_vars

NextDisp == GenerateDepartureImage \/ GenerateSingleImage \/ RunRenderProcess

StartDisp == InitDisp /\ IdleDelay /\ IdleBoard /\ IdleProc /\ IdleHash /\ IdleRoute /\ IdlePoll /\ IdleFetch /\ IdleParse /\ IdleSplit /\ IdleDraw

SpecDisp == StartDisp /\ [][NextDisp]_vars

NextRoute == PollRoute \/ UpstreamChanges

StartRoute == InitRoute /\ IdleDelay /\ IdleBoard /\ IdleProc /\ IdleHash /\ IdleDisp /\ IdlePoll /\ IdleFetch /\ IdleParse /\ IdleSplit /\ IdleDraw

SpecRoute == StartRoute /\ [][NextRoute]_vars

NextPoll == PollDevice \/ PollSleep

StartPoll == InitPoll /\ IdleDelay /\ IdleBoard /\ IdleProc /\ IdleHash /\ IdleDisp /\ IdleRoute /\ IdleFetch /\ IdleParse /\ IdleSplit /\ IdleDraw

SpecPoll == StartPoll /\ [][NextPoll]_vars

NextFetch == FetchStationBoard \/ FetchServiceDetails

StartFetch == InitFetch /\ IdleDelay /\ IdleBoard /\ IdleProc /\ IdleHash /\ IdleDisp /\ IdleRoute /\ IdlePoll /\ IdleParse /\ IdleSplit /\ IdleDraw

SpecFetch == StartFetch /\ [][NextFetch]_vars

NextParse == ParseServiceData

StartParse == InitParse /\ IdleDelay /\ IdleBoard /\ IdleProc /\ IdleHash /\ IdleDisp /\ IdleRoute /\ IdlePoll /\ IdleFetch /\ IdleSplit /\ IdleDraw

SpecParse == StartParse /\ [][NextParse]_vars

NextSplit == AppendCallingPoints

StartSplit == InitSplit /\ IdleDelay /\ IdleBoard /\ IdleProc /\ IdleHash /\ IdleDisp /\ IdleRoute /\ IdlePoll /\ IdleFetch /\ IdleParse /\ IdleDraw

SpecSplit == StartSplit /\ [][NextSplit]_vars

NextDraw == DrawBoard

StartDraw == InitDraw /\ IdleDelay /\ IdleBoard /\ IdleProc /\ IdleHash /\ IdleDisp /\ IdleRoute /\ IdlePoll /\ IdleFetch /\ IdleParse /\ IdleSplit

SpecDraw == StartDraw /\ [][NextDraw]_vars

(***************************************************************************)
(* Claims                                                                  *)
(***************************************************************************)

\* C1: for valid HH:MM pairs delayCalc reports a problem exactly when the
\* estimated time differs from the scheduled time, and returns
\* (False, 'On Time') when they are equal.
C1_ProblemIffDiffers ==
    (DelayCalled /\ scheduled_time \in TimeTokens /\ estimated_time \in TimeTokens) =>
        /\ ~delayResult.raised
        /\ delayResult.problem = (estimated_time # scheduled_time)
        /\ (estimated_time = scheduled_time => delayResult = Returned(FALSE, T_On_Time))

C1_Witness ==
    /\ DelayCalled
    /\ scheduled_time = HHMM(870)
    /\ estimated_time = HHMM(871)
    /\ delayResult.problem

\* C2 (as claimed): an estimate 'Cancelled' gives (True, 'Cancelled') for any
\* scheduled token.
C2_CancelledAlways ==
    (DelayCalled /\ estimated_time = T_Cancelled) => delayResult = Returned(TRUE, T_Cancelled)

\* C2 (amended): an estimate 'Cancelled' gives (True, 'Cancelled') for any
\* scheduled token that does not contain 'On'; a scheduled token containing
\* 'On' gives (False, 'On time').
C2_CancelledUnlessOn ==
    (DelayCalled /\ estimated_time = T_Cancelled) =>
        IF Truthy(scheduled_time) /\ Contains(scheduled_time, T_On)
        THEN delayResult = Returned(FALSE, T_On_time)
        ELSE delayResult = Returned(TRUE, T_Cancelled)

C2_Witness ==
    /\ DelayCalled
    /\ estimated_time = T_Cancelled
    /\ scheduled_time = HHMM(870)
    /\ delayResult = Returned(TRUE, T_Cancelled)

BoardParsed == parsedBoard # NotParsed

\* the record of the round-trip property: a platform, HH:MM times, an
\* operator and calling points that are put on the board
FullRecord ==
    /\ svcRecord.platform \notin {<<>>, NoneTok}
    /\ svcRecord.etd \in {T_1430, T_1435}
    /\ svcRecord.include_calling_points
    /\ svcRecord.calling # <<>>

\* C3 (as claimed): the row built for a record with platform, HH:MM times,
\* operator and calling points is parsed into one service with the record's
\* destination, scheduled time and operator, whatever the destination length.
C3_RoundTrip ==
    (BoardParsed /\ FullRecord) =>
        /\ Len(parsedBoard.services) = 1
        /\ parsedBoard.services[1].destination = svcRecord.destination_text
        /\ parsedBoard.services[1].scheduled = svcRecord.std
        /\ parsedBoard.services[1].operator = svcRecord.operator_name

\* the entry of image_content that starts the rows of a service
IsRowOf(line, item) == StartsWith(line, <<"\n">> \o item.destination_text \o <<",">>)

\* the service contributed nothing: its slot is as cleared, no entry is a row of it
ContributesNothing(run, i, item) ==
    /\ run.states[i] = ClearedTrain
    /\ \A k \in 1..Len(run.image_content) : ~IsRowOf(run.image_content[k], item)

\* the service was fetched in its turn and, unless its fetch failed, processed
FetchedAndProcessed(run, j, item) ==
    /\ j <= Len(run.fetched)
    /\ run.fetched[j] = item.service_id
    /\ ~item.fetch_fails =>
          /\ \E k \in 1..Len(run.processed) : run.processed[k] = item.service_id
          /\ \E k \in 1..Len(run.image_content) : IsRowOf(run.image_content[k], item)
          /\ run.states[j].Dest = item.destination_text

InBoardOrder(ids) == \A a, b \in 1..Len(ids) : a < b => ids[a] < ids[b]

\* C7 (as claimed): in device_manager._process_train_services a service
\* whose detail fetch fails contributes no board rows and no device states,
\* and every later service of the capped list is still fetched and
\* processed, in board order.
C7_FailedFetchSkipped ==
    procDM.done =>
        LET capped == Capped(procInput.services)
        IN /\ Len(capped) <= MAX_TRAINS_TRACKED
           /\ InBoardOrder(procDM.fetched) /\ InBoardOrder(procDM.processed)
           /\ \A i \in 1..Len(capped) :
                (i <= Len(procDM.fetched) /\ capped[i].fetch_fails) =>
                    /\ ContributesNothing(procDM, i, capped[i])
                    /\ \A j \in (i + 1)..Len(capped) : FetchedAndProcessed(procDM, j, capped[j])

\* the same statement, for boards whose tokens delayCalc classifies
C7_FailedFetchSkipped_Classified ==
    (\A i \in 1..Len(procInput.services) : procInput.services[i].etd # <<"1","4","3","0">>)
        => C7_FailedFetchSkipped

BodyIsNotice(run) ==
    run.body = NoDeparturesNotice(ViaStation(procInput.filtered), LocationName, T_Waterloo)

\* the body is the notice, without tabular rows, exactly when no service was processed
NoticeIffNothingProcessed(run) ==
    (run.done /\ ~run.raised) =>
        /\ BodyIsNotice(run) <=> (run.processed = <<>>)
        /\ BodyIsNotice(run) => ~Contains(run.body, T_Dashes3)
        /\ ~BodyIsNotice(run) => Contains(run.body, T_1430)

\* C8 (as claimed): the board body is the "no departures" notice exactly
\* when no service of the cycle was successfully processed, in
\* device_manager.py and in plugin.py.
C8_NoticeIffNothingProcessed ==
    NoticeIffNothingProcessed(procDM) /\ NoticeIffNothingProcessed(procPL)

\* the device_manager.py half of the statement
C8_NoticeIffNothingProcessed_DM == NoticeIffNothingProcessed(procDM)

HashesComputed == hashDigests # NoDigests

\* C6 (as claimed): two inputs that differ in a character of the board text
\* or of the parameters text have different digests.
C6_HashInjective ==
    (HashesComputed /\ hashInputs[1] # hashInputs[2]) => hashDigests[1] # hashDigests[2]

BothEnabled == GenerateClassic(plugin_prefs) /\ GenerateModern(plugin_prefs)

\* C9: with both styles enabled each style is attempted exactly once whatever
\* the outcome of the other, and the call returns success exactly when the
\* render of at least one style succeeded.
C9_IndependentStyles ==
    (dispatch.done /\ BothEnabled) =>
        /\ dispatch.attempts = <<"classic", "modern">>
        /\ dispatch.returned = (\E st \in Styles : childOutcome[st] = "exit0")

C9_Witness ==
    /\ dispatch.done /\ BothEnabled
    /\ childOutcome["classic"] = "timeout"
    /\ childOutcome["modern"] = "exit0"
    /\ dispatch.returned

\* C10 (as claimed): with neither style enabled the dispatcher logs a
\* warning, does not return failure and does not set the image generation
\* status to 'failed'.
C10_NoStylesNotFailure ==
    (dispatch.done /\ ~GenerateClassic(plugin_prefs) /\ ~GenerateModern(plugin_prefs)) =>
        /\ dispatch.logged = "warning"
        /\ dispatch.returned
        /\ dispatch.imageGenerationStatus # "failed"

\* the latest cycle completed and saw the upstream data and the render
\* parameters of the completed cycle before it
SecondIdenticalCycle == lastCycle.result = "True" /\ lastCycle.sameInputs

\* C4 (as claimed): in the second of two consecutive cycles with unchanged
\* upstream data and render parameters the board digest equals the stored
\* one and the render is not invoked.
C4_UnchangedCycleSkipsRender ==
    SecondIdenticalCycle => (lastCycle.digest = storedDigest /\ ~lastCycle.rendered)

RenderFailed(cycle) == cycle.rendered /\ cycle.renderOutcome # "exit0"

C11_TrueIffExitZero ==
    singleImage.called =>
        /\ singleImage.returned = (singleImage.outcome = "exit0")
        /\ ~singleImage.raised

C11_Witness ==
    /\ singleImage.called
    /\ singleImage.outcome = "timeout"
    /\ ~singleImage.returned
    /\ ~singleImage.raised

\* a route device whose routeUpdate failed in the current iteration
RouteFailed(i) == pollLoop.attempted[i].result \in {"False", "raised"}

\* the for loop of the current iteration has stopped
IterationOver == ~pollLoop.alive \/ pollLoop.position > NumRoutes

\* C12: in one iteration of the poll loop a failure while updating one route
\* (board fetch, writing the board text, an unparseable upstream token) does
\* not prevent a later active route device from being attempted, and the
\* loop goes on to its next iteration.
C12_RouteFailureIsolated ==
    (IterationOver /\ \E i \in 1..NumRoutes : RouteFailed(i)) =>
        /\ pollLoop.alive
        /\ \A j \in 1..NumRoutes :
                pollRoutes[j].active => pollLoop.attempted[j].result # "none"

\* the cycle that has just run met a failed login or a failed board fetch
LoginOrFetchFailed(cycle) ==
    cycle.env # <<>> /\ cycle.env.enabled /\ (~cycle.env.login \/ ~cycle.env.fetch)

\* C13: when the login or the station-board fetch of a cycle fails,
\* routeUpdate ends the cycle with failure without writing the board text
\* file and without starting any render process.
C13_FailedFetchShortCircuits ==
    [][(ukTime' # ukTime /\ LoginOrFetchFailed(lastCycle')) =>
            /\ lastCycle'.result = "False"
            /\ ~lastCycle'.wrote
            /\ ~lastCycle'.rendered
            /\ boardFile' = boardFile
            /\ renderCalls' = renderCalls]_vars

C13_Witness ==
    /\ LoginOrFetchFailed(lastCycle)
    /\ ~lastCycle.env.fetch
    /\ lastCycle.result = "False"
    /\ boardFile # NoFile
    /\ renderCalls = 1

\* the cycle that has just run logged in, fetched the station board and
\* found the board text file writable
FetchSucceeded(cycle) ==
    cycle.env # <<>> /\ cycle.env.enabled /\ cycle.env.login /\ cycle.env.fetch
        /\ cycle.env.write

\* C14: in every poll cycle of a route whose board fetch succeeded, the
\* board text file is rewritten, whether the image render of that cycle is
\* run or skipped.
C14_TextAlwaysRewritten ==
    [][(ukTime' # ukTime /\ FetchSucceeded(lastCycle')) =>
            /\ lastCycle'.wrote
            /\ boardFile' # NoFile
            /\ Contains(boardFile', getUKTime(ukTime))]_vars

\* the first upstream call of the observed sequence fails with a transient error
FirstCallTransient == upstreamAnswers.answers[1] \in RetriedExceptions

\* C15: upstream fetches are retried within a fixed bound: a call of
\* _fetch_service_details whose upstream call fails with a transient error
\* makes a second upstream attempt and returns None only after 2 attempts
\* failed, and a call of _fetch_station_board makes at most 3 upstream
\* attempts before the failure reaches the caller.
C15_BoundedRetries ==
    /\ (fetchCalls.details.called /\ upstreamAnswers.tenacity /\ FirstCallTransient) =>
            /\ fetchCalls.details.attempts = 2
            /\ (fetchCalls.details.value = "None" => upstreamAnswers.answers[2] # "ok")
    /\ fetchCalls.board.called => fetchCalls.board.attempts <= StationBoardMaxAttempts

\* the part of C15 about _fetch_station_board alone
C15_StationBoardAtMostThree ==
    fetchCalls.board.called =>
        /\ fetchCalls.board.attempts <= StationBoardMaxAttempts
        /\ (fetchCalls.board.raised /\ upstreamAnswers.tenacity
                /\ fetchCalls.board.exc \in RetriedExceptions) =>
                    fetchCalls.board.attempts = StationBoardMaxAttempts

\* the rows with 5 fields, with 4 fields, and with 3 fields of which the
\* third is a status word merged with the operator
WellFormedRows == {FieldRow(5), FieldRow(4), MergedStatusRow}

\* the board body is one well-formed row and one row of 2 fields, in either order
OneGoodOneShort ==
    /\ Len(boardLines) = 2
    /\ \E i \in 1..2 : boardLines[i] \in WellFormedRows /\ boardLines[3 - i] = FieldRow(2)

\* C16: parse_service_data never raises on malformed input: for a board
\* body with one well-formed service row and one row that splits into only
\* 2 dash-delimited fields, in either order, it returns exactly one parsed
\* service and counts exactly one malformed skip.
C16_OneParsedOneSkipped ==
    (parseResult.done /\ OneGoodOneShort) =>
        /\ Len(parseResult.services) = 1
        /\ parseResult.skipped_lines = 1
        /\ \E i \in 1..2 :
                /\ boardLines[i] \in WellFormedRows
                /\ parseResult.services[1].destination = Split(boardLines[i], "-")[1]

C16_Witness ==
    /\ parseResult.done
    /\ boardLines = <<FieldRow(2), FieldRow(5)>>
    /\ Len(parseResult.services) = 1
    /\ parseResult.skipped_lines = 1

\* the line takes the service row branch of the parser
IsServiceRow(line) ==
    /\ Contains(Strip(line), T_Dashes3)
    /\ ~Contains(Strip(line), T_StatusColon)
    /\ ~Contains(Strip(line), T_Arrows)

\* the number of fields the row splits into
NumFields(line) == Len(StripNonEmpty(ReSplitDashes(Strip(line))))

StartsWithStatusWord(field) ==
    \E w \in StatusWords :
        Len(field) >= Len(w) /\ Upper(SubSeq(field, 1, Len(w))) = Upper(w)

\* the rows the parser is said to accept
SaidAccepted(line) ==
    \/ NumFields(line) \in {4, 5}
    \/ /\ NumFields(line) = 3
       /\ StartsWithStatusWord(StripNonEmpty(ReSplitDashes(Strip(line)))[3])

\* C20: parse_service_data accepts a service row only when it splits into
\* exactly 5 fields, exactly 4 fields, or exactly 3 fields whose third field
\* starts with a known status word; a row with any other field count (fewer
\* than 3 or more than 5) is dropped as malformed and counted as skipped.
C20_AcceptedFieldCounts ==
    (parseResult.done /\ \A i \in 1..Len(boardLines) : IsServiceRow(boardLines[i])) =>
        /\ Len(parseResult.services) =
                Cardinality({i \in 1..Len(boardLines) : SaidAccepted(boardLines[i])})
        /\ parseResult.skipped_lines =
                Cardinality({i \in 1..Len(boardLines) : ~SaidAccepted(boardLines[i])})

\* what the code accepts: 4 fields or more, or 3 fields whose third field is
\* a status word followed by a dash
C20_CodeAccepts ==
    (parseResult.done /\ \A i \in 1..Len(boardLines) : IsServiceRow(boardLines[i])) =>
        Len(parseResult.services) =
            Cardinality({i \in 1..Len(boardLines) :
                            \/ NumFields(boardLines[i]) >= 4
                            \/ boardLines[i] = MergedStatusRow})

\* the minute of the day an HH:MM token names
MinuteOfDay(token) == CHOOSE m \in 0..(MinutesInDay - 1) : HHMM(m) = token

Unrecognised(s, e) ==
    /\ \/ s \in {NoneTok, <<>>}
       \/ e \in {NoneTok, <<>>}
       \/ s[1] \notin {"0", "1", "2"}
       \/ e[1] \notin {"0", "1", "2"}
    /\ \A t \in {s, e} :
          t # NoneTok => ~Contains(t, T_On) /\ ~Contains(Upper(t), T_CAN)

\* C18: when either token is null or empty, or the first character of
\* either token is not 0, 1 or 2, and neither token contains 'On' nor
\* (case-insensitively) 'CAN', delayCalc returns (True, 'Delayed').
C18_DelayedByDefault ==
    (DelayCalled /\ Unrecognised(scheduled_time, estimated_time)) =>
        delayResult = Returned(TRUE, T_Delayed)

C18_Witness ==
    /\ DelayCalled
    /\ scheduled_time = HHMM(870)
    /\ estimated_time = NoneTok
    /\ delayResult = Returned(TRUE, T_Delayed)

\* C19: when the dispatcher starts the render process with style tag
\* 'modern' the image is produced by the modern renderer, and with style tag
\* 'classic' by the classic renderer: the render process selects its
\* renderer from the fifth positional argument.
C19_RendererFollowsStyleTag ==
    (renderProc.started /\ renderProc.exit = 0) => renderProc.renderer = renderProc.argv[6]

\* C24: delayCalc is total: for every pair of tokens the upstream can send
\* (null, empty, status text, HH:MM times, and texts that start with 0, 1 or
\* 2 without being HH:MM) it returns a (bool, message) result and never
\* raises.
C24_DelayCalcTotal ==
    DelayCalled => ~delayResult.raised

\* the number of non-empty lines of a text
NonEmptyLines(text) ==
    LET lines == Split(text, "\n")
    IN Cardinality({i \in 1..Len(lines) : lines[i] # <<>>})

\* a run of service processing that formatted a board body from its entries
BodyFormatted(run) == run.done /\ ~run.raised /\ run.departures_found

\* C23: _format_station_board emits at most max_lines lines (30 by default)
\* of board body for every image_content list, including lists longer than
\* max_lines.
C23_AtMostMaxLines ==
    /\ BodyFormatted(procDM) => NonEmptyLines(procDM.body) <= MaxLines
    /\ BodyFormatted(procPL) => NonEmptyLines(procPL.body) <= MaxLines

\* what the loop emits: one entry more than max_lines at most
C23_AtMostMaxLinesPlusOne ==
    /\ BodyFormatted(procDM) => NonEmptyLines(procDM.body) <= MaxLines + 1
    /\ BodyFormatted(procPL) => NonEmptyLines(procPL.body) <= MaxLines + 1

RECURSIVE JoinSpaces(_)
\* the texts joined by single spaces
JoinSpaces(texts) ==
    IF texts = <<>> THEN <<>>
    ELSE IF Len(texts) = 1 THEN texts[1]
    ELSE texts[1] \o <<" ">> \o JoinSpaces(Tail(texts))

\* the calling-point text carried by each emitted '>>> ' entry
CallingTexts == [i \in 1..Len(splitLines) |-> Drop(splitLines[i], Len(T_ArrowsSp))]

\* C30: the calling-points splitting loop of _append_train_to_image
\* terminates for every calling-points string and every word_length
\* (0 and negative values included); every emitted '>>> ' line carries at
\* most max(20, word_length) characters of calling-point text, and the
\* emitted lines joined by single spaces reproduce the stripped
\* calling-points string.
C30_SplitKeepsText ==
    splitLines # NotSplit =>
        /\ \A i \in 1..Len(splitLines) :
                /\ StartsWith(splitLines[i], T_ArrowsSp)
                /\ Len(CallingTexts[i]) <= Max(MinWordLength, splitInput.word_length)
        /\ JoinSpaces(CallingTexts) = Strip(build_calling_points_string(splitInput.calling))

\* the part of C30 about the length of the emitted lines
C30_LinesWithinWordLength ==
    splitLines # NotSplit =>
        \A i \in 1..Len(splitLines) :
            Len(CallingTexts[i]) <= Max(MinWordLength, splitInput.word_length)

\* a record with a platform and a status-token estimate
StatusRecord ==
    /\ svcRecord.platform \notin {<<>>, NoneTok}
    /\ svcRecord.etd \in {T_Cancelled, T_Delayed, T_On_time}

\* C25: for a service record with a platform and a status-token estimate
\* ('Cancelled', 'Delayed' or 'On time') the row emitted by the builder is
\* parsed by parse_service_data into a service whose scheduled field is the
\* record's scheduled time, whose platform field is the record's platform
\* and whose operator field is the record's operator name.
C25_StatusRowRoundTrip ==
    (BoardParsed /\ StatusRecord) =>
        /\ Len(parsedBoard.services) = 1
        /\ parsedBoard.services[1].scheduled = svcRecord.std
        /\ parsedBoard.services[1].platform = svcRecord.platform
        /\ parsedBoard.services[1].operator = svcRecord.operator_name

\* slot n received a service of the board in the cycle
Received(board, n) == n <= Len(board) /\ n <= MAX_TRAINS_TRACKED /\ ~FetchFailed(board[n])

\* C26: after a successful route update, every per-train state (Dest, Op,
\* Sch, Est, Platform, Delay, Issue, Reason, Calling) of a slot that received
\* no service in the cycle holds its empty or false value.
C26_UnservedSlotsCleared ==
    lastCycle.result = "True" =>
        \A n \in 1..MAX_TRAINS_TRACKED :
            ~Received(lastCycle.inputs[1], n) => dev.states[n] = ClearedTrain

\* C27: a cycle of routeUpdate that fails (device disabled, login failure or
\* station-board fetch failure) leaves every per-train state and the
\* stationIssues flag at the values the previous cycle published.
C27_FailedCycleKeepsStates ==
    [][(ukTime' = ukTime + 1 /\ lastCycle'.result = "False") =>
            /\ dev'.states = dev.states
            /\ dev'.stationIssues = dev.stationIssues]_vars

\* a populated slot of a run of _process_train_services
Populated(run, n) == run.states[n].Dest # <<>>

ReasonEmptyIffNoIssue(run) ==
    (run.done /\ ~run.raised) =>
        \A n \in 1..MAX_TRAINS_TRACKED :
            Populated(run, n) => ((run.states[n].Reason = <<>>) <=> ~run.states[n].Issue)

\* C28: after a successful update, in every populated slot the Reason state
\* is empty exactly when the Issue state is false, for a numerically on-time
\* service and for a status-token on-time service, in device_manager.py and
\* in plugin.py.
C28_ReasonEmptyIffNoIssue ==
    ReasonEmptyIffNoIssue(procDM) /\ ReasonEmptyIffNoIssue(procPL)

\* C29: after a successful route update, stationIssues is true exactly when
\* one of the train slots 1 to 10 has its Issue state true.
C29_StationIssuesIffSomeIssue ==
    lastCycle.result = "True" =>
        (dev.stationIssues <=> \E n \in 1..MAX_TRAINS_TRACKED : dev.states[n].Issue)

\* a successful cycle that published a train with an issue
C29_Witness ==
    /\ lastCycle.result = "True"
    /\ dev.states[1].Issue
    /\ dev.stationIssues

\* the service rows among what the draw loop drew
DrawnServices == SelectSeq(drawPass.drawn, LAMBDA d : d.class = "service")

\* C22: the classic draw pass draws at most 5 lines classified as plain
\* service rows; the status and calling-point lines that follow a drawn
\* service row are still drawn.
C22_AtMostFiveServiceRows ==
    drawPass.done => Len(DrawnServices) <= maxServices

\* what the loop does guarantee: one row more than the maximum, and every
\* line up to the first refused service row is drawn
C22_AtMostSixServiceRows ==
    drawPass.done => Len(DrawnServices) <= maxServices + 1

\* line k of the board body is a service row dropped as malformed
DroppedAt(k) ==
    /\ IsServiceRow(boardLines[k])
    /\ parse_service_data(<<boardLines[k]>>).services = <<>>

\* no service row follows line k
NoServiceRowAfter(k) ==
    \A j \in (k + 1)..Len(boardLines) : ~IsServiceRow(boardLines[j])

\* C21: after a service row is dropped as malformed, no following status
\* row and no following calling-points row changes a previously accepted
\* service until the next service row is accepted, and each such
\* calling-points row is counted as an orphan.
C21_DroppedRowDetachesFollowers ==
    parseResult.done =>
        \A k \in 1..Len(boardLines) :
            (DroppedAt(k) /\ NoServiceRowAfter(k)) =>
                LET before == parse_service_data(SubSeq(boardLines, 1, k - 1))
                    orphans == {j \in (k + 1)..Len(boardLines) :
                                    Contains(boardLines[j], T_Arrows)}
                IN /\ parseResult.services = before.services
                   /\ parseResult.skipped_lines =
                        before.skipped_lines + 1 + Cardinality(orphans)

\* an accepted row, a dropped row, then a calling-points row
C21_Witness ==
    /\ parseResult.done
    /\ boardLines = <<FieldRow(5), FieldRow(2), CallingLine>>
    /\ Len(parseResult.services) = 1
    /\ parseResult.services[1].calling_points = <<>>
    /\ parseResult.skipped_lines = 2

====
